---- MODULE Spec2Model ----
(***************************************************************************)
(* Model of the Orbiter MSHX1 exporter (src/orbiter_tools.py) and importer *)
(* (src/import_tools.py).                                                  *)
(*                                                                         *)
(* Numbers: every float of the program is an integer count of units of     *)
(* 0.00002, so 1.0 is One, the comparison tolerance 0.001 is Tol, and the  *)
(* "{:.4f}" formatting grid 0.0001 is Grid units (Grid is odd in units, so *)
(* rounding to the grid never meets a tie).                                *)
(* Strings: a name or a path is a sequence of one-character strings or of  *)
(* path parts, so that find/replace/split are computed, not assumed.       *)
(***************************************************************************)
EXTENDS Integers, Sequences, FiniteSets, TLC

VARIABLES config, scene, objs, pc, gi, ti, ci, cur, export_tri_face,
          export_faces, groups, mat_names, tex_names, dyn_texs,
          mesh_file, rd, host, bpy_data, include_file, build

vars == <<config, scene, objs, pc, gi, ti, ci, cur, export_tri_face,
          export_faces, groups, mat_names, tex_names, dyn_texs,
          mesh_file, rd, host, bpy_data, include_file, build>>

-----------------------------------------------------------------------------
(* Bounds of the model *)

\* host vertices of the geometry-rich mesh
MaxVerts == 3
\* most triangles of the geometry-rich mesh
MaxTris == 2
\* most mesh objects of a scene in the catalogue specification
MaxGroups == 2

(* Program constants, in units of 0.00002 *)

\* 1.0, as in "1 - uv[1]"
One == 50000
\* tolerance = 0.001 of set_uv and set_normal
Tol == 50
\* 0.0001, the last digit kept by "{:.4f}"
Grid == 5

-----------------------------------------------------------------------------
(* Helpers *)

Abs(x) == IF x < 0 THEN 0 - x ELSE x

Range(s) == {s[i] : i \in 1..Len(s)}

\* list.index(x): the first position of x, 0-based; only used when x is in s
IndexOf(s, x) == (CHOOSE i \in 1..Len(s) : s[i] = x /\ \A j \in 1..(i - 1) : s[j] # x) - 1

\* "{:.4f}".format(x) read back by float(): x rounded to the nearest multiple of Grid
Format4(x) ==
    LET r == x % Grid
    IN  IF 2 * r < Grid THEN x - r ELSE x + (Grid - r)

-----------------------------------------------------------------------------
(* class Vertex *)

\* Vertex.__init__: every field None (n_set / uv_set FALSE stand for None)
NewVertex == [x |-> 0, y |-> 0, z |-> 0,
              n_set |-> FALSE, nx |-> 0, ny |-> 0, nz |-> 0,
              uv_set |-> FALSE, u |-> 0, v |-> 0]

\* from_BlenderVertex with the two panel rows forgotten (the older swap rule)
from_BlenderVertex_swaponly(co, swap_axis, is_2d_panel) ==
    [NewVertex EXCEPT
        !.x = IF swap_axis THEN co[1] ELSE 0 - co[1],
        !.y = IF swap_axis THEN co[3] ELSE co[2],
        !.z = IF swap_axis THEN co[2] ELSE co[3]]

\* Vertex.from_BlenderVertex (tv = blvert.co; the mesh was transformed before)
from_BlenderVertex(co, swap_axis, is_2d_panel) ==
    [NewVertex EXCEPT
        !.x = IF swap_axis THEN co[1]
              ELSE (IF is_2d_panel THEN co[1] ELSE 0 - co[1]),
        !.y = IF swap_axis THEN (IF is_2d_panel THEN 0 - co[3] ELSE co[3])
              ELSE co[2],
        !.z = IF swap_axis THEN (IF is_2d_panel THEN 0 ELSE co[2])
              ELSE (IF is_2d_panel THEN 0 ELSE co[3])]

\* uv is [some |-> BOOLEAN, val |-> <<u, v>>]; some = FALSE is Python's None
NoUV == [some |-> FALSE, val |-> <<0, 0>>]
SomeUV(p) == [some |-> TRUE, val |-> p]

\* Vertex.from_Vertex: position copied, normal and uv taken from the corner
from_Vertex(vert, normal, uv, swap_axis, is_2d_panel) ==
    LET n1 == [NewVertex EXCEPT
                 !.x = vert.x, !.y = vert.y, !.z = vert.z,
                 !.n_set = TRUE,
                 !.nx = IF swap_axis THEN normal[1]
                        ELSE (IF is_2d_panel THEN normal[1] ELSE 0 - normal[1]),
                 !.ny = IF swap_axis
                        THEN (IF is_2d_panel THEN 0 - normal[3] ELSE normal[3])
                        ELSE normal[2],
                 !.nz = IF swap_axis
                        THEN (IF is_2d_panel THEN 0 ELSE normal[2])
                        ELSE (IF is_2d_panel THEN 0 ELSE normal[3])]
    IN  IF uv.some
        THEN [n1 EXCEPT !.uv_set = TRUE, !.u = uv.val[1],
                        !.v = IF is_2d_panel THEN uv.val[2] ELSE One - uv.val[2]]
        ELSE n1

\* set_uv returns a bool and may assign self.u, self.v: [ret, self]
set_uv(self, uv, panel_adjust) ==
    IF ~uv.some THEN [ret |-> TRUE, self |-> self]
    ELSE LET nu == uv.val[1]
             nv == One - uv.val[2]
         IN  IF ~self.uv_set
             THEN [ret |-> TRUE,
                   self |-> [self EXCEPT !.uv_set = TRUE, !.u = nu, !.v = nv]]
             ELSE [ret |-> (Abs(self.u - nu) < Tol) /\ (Abs(self.v - nv) < Tol),
                   self |-> self]

\* set_normal that keeps the first normal and never reports a conflict
set_normal_first(self, normal, swap_axis) ==
    IF ~self.n_set
    THEN [ret |-> TRUE,
          self |-> [self EXCEPT
                      !.n_set = TRUE,
                      !.nx = IF swap_axis THEN normal[1] ELSE 0 - normal[1],
                      !.ny = IF swap_axis THEN normal[3] ELSE normal[2],
                      !.nz = IF swap_axis THEN normal[2] ELSE normal[3]]]
    ELSE [ret |-> TRUE, self |-> self]

\* set_normal returns a bool and may assign self.nx, ny, nz: [ret, self]
set_normal(self, normal, swap_axis) ==
    IF ~self.n_set
    THEN [ret |-> TRUE,
          self |-> [self EXCEPT
                      !.n_set = TRUE,
                      !.nx = IF swap_axis THEN normal[1] ELSE 0 - normal[1],
                      !.ny = IF swap_axis THEN normal[3] ELSE normal[2],
                      !.nz = IF swap_axis THEN normal[2] ELSE normal[3]]]
    ELSE [ret |-> IF swap_axis
                  THEN (Abs(self.nx - normal[1]) < Tol)
                       /\ (Abs(self.ny - normal[3]) < Tol)
                       /\ (Abs(self.nz - normal[2]) < Tol)
                  ELSE (Abs(self.nx - (0 - normal[1])) < Tol)
                       /\ (Abs(self.ny - normal[2]) < Tol)
                       /\ (Abs(self.nz - normal[3]) < Tol),
          self |-> self]

\* Vertex.mesh_form: the tokens of a vertex line (truthiness tests as written)
mesh_form(self) ==
    <<Format4(self.x), Format4(self.y), Format4(self.z)>>
    \o (IF self.n_set /\ (self.nx # 0 \/ self.ny # 0 \/ self.nz # 0)
        THEN <<Format4(self.nx), Format4(self.ny), Format4(self.nz)>> ELSE <<>>)
    \o (IF self.uv_set /\ (self.u # 0 \/ self.v # 0)
        THEN <<Format4(self.u), Format4(self.v)>> ELSE <<>>)

(* class Triangle *)

\* Triangle.__init__ keeps the order it is given
Triangle(v1, v2, v3) == [v1 |-> v1, v2 |-> v2, v3 |-> v3]

\* from_dict that hands the corners on in the order of the dictionary
from_dict_asgiven(tri_list) == Triangle(tri_list[0], tri_list[1], tri_list[2])

\* Triangle.from_dict: cls(tri_list[0], tri_list[2], tri_list[1]); corners are 0-based
from_dict(tri_list) == Triangle(tri_list[0], tri_list[2], tri_list[1])

\* Triangle.__str__
TriangleStr(t) == <<t.v1, t.v2, t.v3>>

-----------------------------------------------------------------------------
(* Strings and paths *)

\* str.replace(a, b) on a sequence of characters
Replace(s, a, b) == [i \in 1..Len(s) |-> IF s[i] = a THEN b ELSE s[i]]

\* str.find(c): 0-based position of the first c, -1 when absent
Find(s, c) ==
    IF c \in Range(s) THEN IndexOf(s, c) ELSE 0 - 1

\* s[0:n]
Prefix(s, n) == SubSeq(s, 1, n)

\* str.lower() of a path part
Lower(part) ==
    CASE part = "Textures" -> "textures"
      [] part = "Textures2" -> "textures2"
      [] OTHER -> part

\* get_texture_path: the parts after the first 'textures' (else 'textures2')
\* folder, or the file name alone; os.path.join keeps the parts in order
get_texture_path(tex_path) ==
    LET lp == [i \in 1..Len(tex_path) |-> Lower(tex_path[i])]
        tidx == IF "textures" \in Range(lp) THEN IndexOf(lp, "textures") + 1
                ELSE IF "textures2" \in Range(lp) THEN IndexOf(lp, "textures2") + 1
                ELSE Len(lp) - 1
    IN  SubSeq(tex_path, tidx + 1, Len(tex_path))

\* build_material_name: the result of out_name.replace is dropped by the code
build_material_name(matname, parse_name) ==
    LET out_name == IF ("_" \in Range(matname)) /\ parse_name
                    THEN Prefix(matname, Find(matname, "_"))
                    ELSE matname
    IN  out_name

-----------------------------------------------------------------------------
(* The host scene: what bpy hands to the exporter *)

\* a material of bpy.data.materials; image.some stands for "Principled BSDF
\* base colour linked to a TEX_IMAGE node holding an image"
HostMaterial(name, image, dyn) ==
    [is_none |-> FALSE, name |-> name, image |-> image, orbiter_is_dynamic |-> dyn]

\* an empty material slot (slot.material is None)
NoneMaterial ==
    [is_none |-> TRUE, name |-> <<>>, image |-> [some |-> FALSE, filepath |-> <<>>],
     orbiter_is_dynamic |-> FALSE]

NoImage == [some |-> FALSE, filepath |-> <<>>]
Image(path) == [some |-> TRUE, filepath |-> path]

\* one tri_face of temp_mesh.loop_triangles with the split normal and the uv
\* of each of its corners (temp_mesh.loops[..].normal, uv_layers[0].data[..].uv)
HostTri(verts, normals, uvs) == [vertices |-> verts, normals |-> normals, uvs |-> uvs]

\* position of host vertex i (0-based), already in world space
HostPos(i) == <<10001 * i - 7, 20002 + 3 * i, 1 - 30003 * i>>

\* corner attributes: normal and uv
NormA == <<10000, 20000, 40000>>
\* within tolerance of NormA in every component, off the formatting grid
NormA2 == <<10012, 19988, 40012>>
NormB == <<40000, 0 - 20000, 10000>>
UvA == <<12500, 12500>>
\* within tolerance of UvA
UvA2 == <<12512, 12488>>
\* same u as UvA, v = 1 - v of UvA
UvB == <<12500, 37500>>

AttrA == [n |-> NormA, uv |-> UvA]
Attrs == {AttrA, [n |-> NormA2, uv |-> UvA2], [n |-> NormB, uv |-> UvA],
          [n |-> NormA, uv |-> UvB]}

\* the attributes of the three corners of one triangle: one corner is free,
\* the other two carry AttrA
CornerAttrs == {[c \in 0..2 |-> IF c = free THEN a ELSE AttrA] : free \in 0..2, a \in Attrs}

\* vertex triples: the first triangle of the vertex list and the last one, reversed
TriShapes == {<<0, 1, 2>>, <<MaxVerts - 1, MaxVerts - 2, MaxVerts - 3>>}

HostTris ==
    {HostTri(sh, <<ca[0].n, ca[1].n, ca[2].n>>, <<ca[0].uv, ca[1].uv, ca[2].uv>>) :
        sh \in TriShapes, ca \in CornerAttrs}

\* triangle lists of length 1..n over S
RECURSIVE SeqsUpTo(_, _)
SeqsUpTo(S, n) ==
    IF n = 0 THEN {<<>>}
    ELSE LET shorter == SeqsUpTo(S, n - 1)
         IN  shorter \cup {Append(s, x) : s \in {t \in shorter : Len(t) = n - 1}, x \in S}

MatHull == <<"H", "_", "a">>
MatWing == <<"W", " ", "b">>
TexPathA == <<"C:", "Orbiter", "Textures", "a.dds">>
TexPathB == <<"C:", "Orbiter", "Textures2", "sub", "b.dds">>
\* outside any textures folder: resolves to the same name as TexPathA
TexPathC == <<"D:", "a.dds">>

HostObject(name, slots, uv_layers, sort_order, tris) ==
    [name |-> name, material_slots |-> slots, uv_layers |-> uv_layers,
     orbiter_sort_order |-> sort_order, orbiter_mesh_flag |-> 0,
     orbiter_include_vertex_array |-> FALSE,
     vertices |-> [i \in 1..MaxVerts |-> HostPos(i - 1)],
     loop_triangles |-> tris]

-----------------------------------------------------------------------------
(* class MeshGroup *)

\* dict[key] = value
DictSet(d, key, value) ==
    [k \in (DOMAIN d) \cup {key} |-> IF k = key THEN value ELSE d[k]]

\* new_key one too far: leaves a hole in the keys
NewKey_gap(d) == Cardinality(DOMAIN d) + 1

\* new_key = len(self.vertices_dict.keys())
NewKey(d) == Cardinality(DOMAIN d)

\* self.num_vertices = len(self.vertices_dict)
\* a count that misses the last entry
NumVertices_short(d) == Cardinality(DOMAIN d) - 1

NumVertices(d) == Cardinality(DOMAIN d)

\* has_uv of MeshGroup.__init__: a uv layer, a first material and a linked image
HasUv(obj) ==
    /\ obj.uv_layers
    /\ ~obj.material_slots[1].is_none
    /\ obj.material_slots[1].image.some

EmptyGroup ==
    [name |-> <<>>, uv_tex_name |-> <<>>, mat_name |-> <<>>, has_mat |-> FALSE,
     vertices_dict |-> <<>>, triangles_list |-> <<>>,
     sort_order |-> 0, include_vertex_array |-> FALSE,
     is_dynamic_texture |-> FALSE, mesh_flag |-> 0, has_uv |-> FALSE,
     num_vertices |-> 0, num_faces |-> 0]

\* export_orbiter up to "groups = [MeshGroup(...) for m in meshes]"
ExportStart ==
    /\ pc = "start"
    /\ gi' = 1
    /\ pc' = IF objs = <<>> THEN "sort" ELSE "mesh_init"
    /\ UNCHANGED <<config, scene, objs, ti, ci, cur, export_tri_face, export_faces,
                   groups, mat_names, tex_names, dyn_texs, mesh_file, rd, host, bpy_data,
                   include_file, build>>

\* MeshGroup.__init__ up to the triangle loop: seeds one vertex per host vertex
MeshGroupInit ==
    /\ pc = "mesh_init"
    /\ gi <= Len(objs)
    /\ LET obj == objs[gi]
       IN  IF obj.material_slots = <<>>
           THEN \* object_eval.material_slots[0] raises IndexError
                /\ pc' = "IndexError"
                /\ UNCHANGED <<cur, ti, ci, export_tri_face, export_faces>>
           ELSE /\ cur' = [EmptyGroup EXCEPT
                    !.name = Replace(obj.name, " ", "_"),
                    !.sort_order = obj.orbiter_sort_order,
                    !.include_vertex_array = obj.orbiter_include_vertex_array,
                    !.mesh_flag = obj.orbiter_mesh_flag,
                    !.vertices_dict =
                        [k \in 0..(Len(obj.vertices) - 1) |->
                            from_BlenderVertex(obj.vertices[k + 1], config.swap_yz,
                                               scene.orbiter_is_2d_panel)],
                    !.has_uv = HasUv(obj),
                    !.is_dynamic_texture =
                        IF HasUv(obj) THEN obj.material_slots[1].orbiter_is_dynamic
                        ELSE FALSE,
                    !.uv_tex_name =
                        IF HasUv(obj)
                        THEN get_texture_path(obj.material_slots[1].image.filepath)
                        ELSE <<>>]
                /\ ti' = 1
                /\ ci' = 0
                /\ export_tri_face' = <<>>
                /\ export_faces' = <<>>
                /\ pc' = IF obj.loop_triangles = <<>> THEN "mesh_finish" ELSE "corners"
    /\ UNCHANGED <<config, scene, objs, gi, groups, mat_names, tex_names, dyn_texs,
                   mesh_file, rd, host, bpy_data,
                   include_file, build>>

\* a corner step that, on a conflict, writes the corner's normal and uv into
\* the entry it found and keeps the index
CornerStep_overwrite(vertices_dict, corner_vert, norm, uv, swap_yz, is_2d_panel) ==
    LET work_vert == vertices_dict[corner_vert]
        rn == set_normal(work_vert, norm, swap_yz)
        ru == set_uv(rn.self, uv, is_2d_panel)
    IN  [vertices_dict |->
            [vertices_dict EXCEPT ![corner_vert] =
                IF rn.ret /\ ru.ret THEN ru.self
                ELSE from_Vertex(ru.self, norm, uv, swap_yz, is_2d_panel)],
         index |-> corner_vert]

\* the body of "for corner_idx, corner_vert in enumerate(tri_face.vertices)":
\* the vertex table and the index of this corner after the corner is handled
CornerStep(vertices_dict, corner_vert, norm, uv, swap_yz, is_2d_panel) ==
    LET work_vert == vertices_dict[corner_vert]
        rn == set_normal(work_vert, norm, swap_yz)
        ru == set_uv(rn.self, uv, is_2d_panel)
        need_norm == ~rn.ret
        need_uv == ~ru.ret
        touched == [vertices_dict EXCEPT ![corner_vert] = ru.self]
    IN  IF need_norm \/ need_uv
        THEN LET new_vert == from_Vertex(ru.self, norm, uv, swap_yz, is_2d_panel)
                 new_key == NewKey(touched)
             IN  [vertices_dict |-> DictSet(touched, new_key, new_vert),
                  index |-> new_key]
        ELSE [vertices_dict |-> touched, index |-> corner_vert]

\* one corner of one tri_face; after corner 2 the Triangle is appended
ProcessCorner ==
    /\ pc = "corners"
    /\ LET tri_face == objs[gi].loop_triangles[ti]
           corner_vert == tri_face.vertices[ci + 1]
           uv == IF cur.has_uv THEN SomeUV(tri_face.uvs[ci + 1]) ELSE NoUV
           norm == tri_face.normals[ci + 1]
           r == CornerStep(cur.vertices_dict, corner_vert, norm, uv,
                           config.swap_yz, scene.orbiter_is_2d_panel)
           face == [c \in 0..ci |-> IF c = ci THEN r.index ELSE export_tri_face[c]]
       IN  /\ cur' = [cur EXCEPT !.vertices_dict = r.vertices_dict]
           /\ IF ci < 2
              THEN /\ ci' = ci + 1
                   /\ export_tri_face' = face
                   /\ UNCHANGED <<ti, export_faces, pc>>
              ELSE /\ ci' = 0
                   /\ export_tri_face' = <<>>
                   /\ export_faces' = Append(export_faces, from_dict(face))
                   /\ ti' = ti + 1
                   /\ pc' = IF ti = Len(objs[gi].loop_triangles)
                            THEN "mesh_finish" ELSE "corners"
    /\ UNCHANGED <<config, scene, objs, gi, groups, mat_names, tex_names, dyn_texs,
                   mesh_file, rd, host, bpy_data,
                   include_file, build>>

\* the end of MeshGroup.__init__: triangles, material name and the two counts
MeshGroupFinish ==
    /\ pc = "mesh_finish"
    /\ LET obj == objs[gi]
       IN  IF obj.material_slots[1].is_none
           THEN \* temp_mesh.materials[0].name on None raises AttributeError
                /\ pc' = "AttributeError"
                /\ UNCHANGED <<groups, gi, cur>>
           ELSE /\ LET done == [cur EXCEPT
                                  !.triangles_list = cur.triangles_list \o export_faces,
                                  !.mat_name = obj.material_slots[1].name,
                                  !.has_mat = TRUE,
                                  !.num_vertices = NumVertices(cur.vertices_dict),
                                  !.num_faces = Len(cur.triangles_list \o export_faces)]
                   IN  /\ groups' = Append(groups, done)
                       /\ cur' = done
                /\ gi' = gi + 1
                /\ pc' = IF gi = Len(objs) THEN "sort" ELSE "mesh_init"
    /\ UNCHANGED <<config, scene, objs, ti, ci, export_tri_face, export_faces,
                   mat_names, tex_names, dyn_texs, mesh_file, rd, host, bpy_data,
                   include_file, build>>

-----------------------------------------------------------------------------
(* The mesh file: a sequence of lines. A line is its keyword (the first     *)
(* token when it is a word, "" on a data line), its text (a name or a path) *)
(* and its numeric tokens.                                                  *)

\* kind says what the writer meant the line to be; no reader looks at it
Line(kind, kw, text, nums) == [kind |-> kind, kw |-> kw, text |-> text, nums |-> nums]

\* the suffix written after a dynamic texture's path
DynSuffix == " D"

\* "{:.3f}".format(x) read back: x rounded to the nearest multiple of 10 * Grid
Format3(x) ==
    LET g == 10 * Grid
        r == x % g
    IN  IF 2 * r < g THEN x - r ELSE x + (g - r)

\* colours of a host material: diffuse, ambient, specular (+ power), emissive
MatColours(name) ==
    <<<<One, One, One, One>>, <<One, One, One, One>>,
      <<One, One, One, One, 10 * One>>, <<0, 0, 0, One>>>>

\* output_material: the header and the four colour lines
output_material(name, parse_name) ==
    <<Line("mathead", "MATERIAL", build_material_name(name, parse_name), <<>>)>>
    \o [i \in 1..4 |->
          Line("colour", "", <<>>, [j \in 1..Len(MatColours(name)[i]) |->
                              Format3(MatColours(name)[i][j])])]

RECURSIVE Flatten(_)
Flatten(ss) == IF ss = <<>> THEN <<>> ELSE Head(ss) \o Flatten(Tail(ss))

\* ord() of the characters names are made of
Ord(c) ==
    CASE c = " " -> 32 [] c = "A" -> 65 [] c = "B" -> 66 [] c = "C" -> 67
      [] c = "G" -> 71 [] c = "H" -> 72 [] c = "W" -> 87 [] c = "_" -> 95
      [] c = "a" -> 97 [] c = "b" -> 98 [] OTHER -> 120

\* Python's str < str
RECURSIVE StrLess(_, _)
StrLess(a, b) ==
    IF b = <<>> THEN FALSE
    ELSE IF a = <<>> THEN TRUE
    ELSE IF Ord(Head(a)) # Ord(Head(b)) THEN Ord(Head(a)) < Ord(Head(b))
    ELSE StrLess(Tail(a), Tail(b))

BySortOrder(a, b) == a.sort_order < b.sort_order
ByNameAsc(a, b) == StrLess(a.name, b.name)
ByNameDesc(a, b) == StrLess(b.name, a.name)

\* the order groups.sort uses under each sort_method
SortBefore(sort_method, a, b) ==
    IF sort_method = "GROUPNAMEASC" THEN ByNameAsc(a, b)
    ELSE IF sort_method = "GROUPNAMEDESC" THEN ByNameDesc(a, b)
    ELSE BySortOrder(a, b)

\* a sort that puts the later of two equal elements first
StableSort_ties(s, sort_method) ==
    LET rank(i) == Cardinality({j \in 1..Len(s) :
                       \/ SortBefore(sort_method, s[j], s[i])
                       \/ (j > i /\ ~SortBefore(sort_method, s[i], s[j]))})
    IN  [k \in 1..Len(s) |-> s[CHOOSE i \in 1..Len(s) : rank(i) = k - 1]]

\* list.sort(key=..., reverse=...): stable, also with reverse=True. An element
\* goes after every element that sorts before it and after the equal ones
\* that came earlier.
StableSort(s, sort_method) ==
    LET rank(i) == Cardinality({j \in 1..Len(s) :
                       \/ SortBefore(sort_method, s[j], s[i])
                       \/ (j < i /\ ~SortBefore(sort_method, s[i], s[j]))})
    IN  [k \in 1..Len(s) |-> s[CHOOSE i \in 1..Len(s) : rank(i) = k - 1]]

\* groups.sort(...) of export_orbiter
SortedGroups(gs, sort_method) == StableSort(gs, sort_method)

\* "x in list"
In(x, s) == x \in Range(s)

\* dyn_texs that takes the texture of every group
DynTexs_all(gs) == [i \in 1..Len(gs) |-> gs[i].uv_tex_name]

\* dyn_texs = [grp.uv_tex_name for grp in groups if grp.is_dynamic_texture]
DynTexs(gs) ==
    Flatten([i \in 1..Len(gs) |->
               IF gs[i].is_dynamic_texture THEN <<gs[i].uv_tex_name>> ELSE <<>>])

\* export_orbiter: sort the groups, start the two catalogues, collect dyn_texs
SortGroups ==
    /\ pc = "sort"
    /\ groups' = SortedGroups(groups, config.sort_method)
    /\ mat_names' = <<>>
    /\ tex_names' = <<>>
    /\ dyn_texs' = DynTexs(SortedGroups(groups, config.sort_method))
    /\ pc' = "header"
    /\ UNCHANGED <<config, scene, objs, gi, ti, ci, cur, export_tri_face,
                   export_faces, mesh_file, rd, host, bpy_data,
                   include_file, build>>

\* export_orbiter: open the mesh file, write the two header lines
WriteHeader ==
    /\ pc = "header"
    /\ mesh_file' = <<Line("header", "MSHX1", <<>>, <<>>),
                     Line("header", "GROUPS", <<>>, <<Len(objs)>>)>>
    /\ gi' = 1
    /\ pc' = IF groups = <<>> THEN "materials" ELSE "write_group"
    /\ UNCHANGED <<config, scene, objs, ti, ci, cur, export_tri_face, export_faces,
                   groups, mat_names, tex_names, dyn_texs, rd, host, bpy_data,
                   include_file, build>>

\* the index given to name in a first-appearance catalogue, and the catalogue after
\* a catalogue that numbers a new name one past its position
Catalogue_late(names, name, present) ==
    IF ~present THEN [idx |-> 0, names |-> names]
    ELSE IF In(name, names) THEN [idx |-> IndexOf(names, name) + 1, names |-> names]
    ELSE [idx |-> Len(names) + 2, names |-> Append(names, name)]

\* a catalogue that numbers a new name by its position before the append
Catalogue_early(names, name, present) ==
    IF ~present THEN [idx |-> 0, names |-> names]
    ELSE IF In(name, names) THEN [idx |-> IndexOf(names, name) + 1, names |-> names]
    ELSE [idx |-> Len(names), names |-> Append(names, name)]

Catalogue(names, name, present) ==
    IF ~present THEN [idx |-> 0, names |-> names]
    ELSE IF In(name, names) THEN [idx |-> IndexOf(names, name) + 1, names |-> names]
    ELSE [idx |-> Len(names) + 1, names |-> Append(names, name)]

\* the lines of one group record
GroupLines(g, matIdx, texIdx) ==
    <<Line("directive", "LABEL", g.name, <<>>),
      Line("directive", "MATERIAL", <<>>, <<matIdx>>),
      Line("directive", "TEXTURE", <<>>, <<texIdx>>),
      Line("directive", "FLAG", <<>>, <<g.mesh_flag>>),
      Line("geom", "GEOM", <<>>, <<g.num_vertices, g.num_faces>>)>>
    \o [i \in 1..Cardinality(DOMAIN g.vertices_dict) |->
          \* sorted(keys): the i-th smallest key
          LET key == CHOOSE k \in DOMAIN g.vertices_dict :
                        Cardinality({j \in DOMAIN g.vertices_dict : j < k}) = i - 1
          IN  Line("vertex", "", <<>>, mesh_form(g.vertices_dict[key]))]
    \o [i \in 1..Len(g.triangles_list) |->
          Line("triangle", "", <<>>, TriangleStr(g.triangles_list[i]))]

\* export_orbiter: one turn of "for mesh_group in groups"
WriteGroup ==
    /\ pc = "write_group"
    /\ LET g == groups[gi]
           m == Catalogue(mat_names, g.mat_name, g.has_mat /\ g.mat_name # <<>>)
           t == Catalogue(tex_names, g.uv_tex_name, g.uv_tex_name # <<>>)
       IN  /\ mat_names' = m.names
           /\ tex_names' = t.names
           /\ mesh_file' = mesh_file \o GroupLines(g, m.idx, t.idx)
    /\ gi' = gi + 1
    /\ pc' = IF gi = Len(groups) THEN "materials" ELSE "write_group"
    /\ UNCHANGED <<config, scene, objs, ti, ci, cur, export_tri_face, export_faces,
                   groups, dyn_texs, rd, host, bpy_data,
                   include_file, build>>

\* export_orbiter: the MATERIALS block (every name is found in bpy.data.materials)
WriteMaterials ==
    /\ pc = "materials"
    /\ mesh_file' =
          mesh_file
          \o <<Line("header", "MATERIALS", <<>>, <<Len(mat_names)>>)>>
          \o [i \in 1..Len(mat_names) |->
                Line("matname", "",
                     build_material_name(mat_names[i], config.parse_material_name), <<>>)]
          \o Flatten([i \in 1..Len(mat_names) |->
                        output_material(mat_names[i], config.parse_material_name)])
    /\ pc' = "textures"
    /\ UNCHANGED <<config, scene, objs, gi, ti, ci, cur, export_tri_face, export_faces,
                   groups, mat_names, tex_names, dyn_texs, rd, host, bpy_data,
                   include_file, build>>

(* The include file: a line is its kind, the name it declares and its value *)

IncLine(kind, name, value) == [kind |-> kind, name |-> name, value |-> value]

\* bpy.path.clean_name: every character that is no letter or digit becomes "_"
\* (a path part of the model stands for its characters)
clean_name(name) ==
    [i \in 1..Len(name) |->
        CASE name[i] \in {" ", ".", "\\", "/", ":"} -> "_"
          [] name[i] = "a.dds" -> "a_dds"
          [] name[i] = "b.dds" -> "b_dds"
          [] OTHER -> name[i]]

\* write_to_include that writes whatever the setting says
write_to_include_always(settings, file, lines) == file \o lines

\* OrbiterBuildSettings.write_to_include: the include file after the call
write_to_include(settings, file, lines) ==
    IF settings.build_include_file THEN file \o lines ELSE file

\* build_include that numbers the groups from 1
build_include_fromone(settings, file, gs, texNames) ==
    IF ~settings.build_include_file THEN file
    ELSE write_to_include(settings, file,
            <<IncLine("scene", <<>>, 0), IncLine("namespace", <<>>, 0)>>
            \o Flatten([i \in 1..Len(gs) |->
                          IF gs[i].include_vertex_array
                          THEN <<IncLine("NTVERTEX", clean_name(gs[i].name),
                                         gs[i].num_vertices)>>
                          ELSE <<>>])
            \o [idx \in 1..Len(texNames) |->
                  IncLine("TXIDX", clean_name(texNames[idx]), idx)]
            \o <<IncLine("MESH_NAME", <<>>, 0)>>
            \o [idx \in 1..Len(gs) |-> IncLine("ID", clean_name(gs[idx].name), idx)]
            \o <<IncLine("close", <<>>, 0)>>)

\* build_include: the include file after the call. The scene comment and the
\* namespace, a vertex array per group that asks for one, TXIDX_<texture> =
\* idx + 1, MESH_NAME, <group> = idx, the namespace closed; the objects of the
\* scene ask for no position, quad, size or rectangle constants.
build_include(settings, file, gs, texNames) ==
    IF ~settings.build_include_file THEN file
    ELSE write_to_include(settings, file,
            <<IncLine("scene", <<>>, 0), IncLine("namespace", <<>>, 0)>>
            \o Flatten([i \in 1..Len(gs) |->
                          IF gs[i].include_vertex_array
                          THEN <<IncLine("NTVERTEX", clean_name(gs[i].name),
                                         gs[i].num_vertices)>>
                          ELSE <<>>])
            \o [idx \in 1..Len(texNames) |->
                  IncLine("TXIDX", clean_name(texNames[idx]), idx)]
            \o <<IncLine("MESH_NAME", <<>>, 0)>>
            \o [idx \in 1..Len(gs) |-> IncLine("ID", clean_name(gs[idx].name), idx - 1)]
            \o <<IncLine("close", <<>>, 0)>>)

\* export_orbiter: the TEXTURES block; the file is closed on leaving "with",
\* then build_include
WriteTextures ==
    /\ pc = "textures"
    /\ mesh_file' =
          mesh_file
          \o <<Line("header", "TEXTURES", <<>>, <<Len(tex_names)>>)>>
          \o [i \in 1..Len(tex_names) |->
                Line("texname", "",
                     IF In(tex_names[i], dyn_texs)
                     THEN Append(tex_names[i], DynSuffix) ELSE tex_names[i], <<>>)]
    /\ include_file' = build_include(config, include_file, groups, tex_names)
    /\ pc' = "exported"
    /\ UNCHANGED <<config, scene, objs, gi, ti, ci, cur, export_tri_face, export_faces,
                   groups, mat_names, tex_names, dyn_texs, rd, host, bpy_data, build>>

-----------------------------------------------------------------------------
(* The importer: import_tools.py *)

BlankLine == Line("eof", "", <<>>, <<>>)

\* file.readline() of the line after pos lines; '' (no tokens) at end of file
ReadLine(file, pos) == IF pos < Len(file) THEN file[pos + 1] ELSE BlankLine

\* str.upper() of a keyword
Upper(kw) ==
    CASE kw \in {"mshx1", "Mshx1", "mSHx1"} -> "MSHX1"
      [] kw = "groups" -> "GROUPS"
      [] kw = "geom" -> "GEOM"
      [] kw = "materials" -> "MATERIALS"
      [] kw = "textures" -> "TEXTURES"
      [] OTHER -> kw

\* "word in kw.upper()": a substring test on the first token
Contains(kw, word) ==
    CASE word = "MATERIAL" -> Upper(kw) \in {"MATERIAL", "MATERIALS"}
      [] word = "TEXTURE" -> Upper(kw) \in {"TEXTURE", "TEXTURES"}
      [] word = "GROUP" -> Upper(kw) \in {"GROUP", "GROUPS"}
      [] OTHER -> Upper(kw) = word

\* len(parts) of a line: the keyword or the text counts for one token each
NParts(line) ==
    (IF line.kw # "" THEN 1 ELSE 0) + (IF line.text # <<>> THEN 1 ELSE 0)
    + Len(line.nums)

\* whether parts[1], parts[2], ... of a keyword line are numbers up to n
NumericArgs(line, n) == line.text = <<>> /\ Len(line.nums) >= n

\* bpy.data before an import: the materials and scenes the import creates
NewBpyData == [materials |-> <<>>, scenes |-> 0]

\* no build under way: OrbiterBuildMesh.execute has not been called.
\* verbose and build_include_file are the settings; log_file, include and the
\* entries of mesh_files say whether a file is open; scenes are the scenes of
\* the build and si the one being exported; log are the lines logged
NoBuild == [verbose |-> FALSE, build_include_file |-> FALSE, log_file |-> "none",
            include |-> "none", include_failed |-> FALSE, mesh_files |-> <<>>,
            scenes |-> <<>>, si |-> 1, log |-> <<>>]

NewReader == [pos |-> 0, n_groups |-> 0, groups |-> <<>>, materials |-> <<>>,
              textures |-> <<>>, mat_dict |-> <<>>]

\* ImportGroup.__init__
NewImportGroup ==
    [mat_index |-> 0, tex_index |-> 0, tex_wrap |-> <<>>, nonormal |-> FALSE,
     flag |-> <<>>, num_verts |-> 0, num_tris |-> 0, tris |-> <<>>, verts |-> <<>>,
     name |-> <<>>, has_name |-> FALSE]

\* ensure_mesh after the header line: [status, n, pos]
RECURSIVE FindGroups(_, _)
FindGroups(file, pos) ==
    LET line == ReadLine(file, pos)
    IN  IF NParts(line) = 0 THEN [status |-> "IndexError", n |-> 0, pos |-> pos]
        ELSE IF Contains(line.kw, "GROUP")
        THEN IF NParts(line) < 2 THEN [status |-> "IndexError", n |-> 0, pos |-> pos]
             ELSE IF ~NumericArgs(line, 1)
             THEN [status |-> "ValueError", n |-> 0, pos |-> pos]
             ELSE [status |-> "ok", n |-> line.nums[1], pos |-> pos + 1]
        ELSE FindGroups(file, pos + 1)

\* ensure_mesh with the header compared as written
ensure_mesh_exact(file) ==
    IF ReadLine(file, 0).kw # "MSHX1"
    THEN [status |-> "MeshException", n |-> 0, pos |-> 0]
    ELSE FindGroups(file, 1)

\* ensure_mesh: the header test, then the search for the GROUPS line
ensure_mesh(file) ==
    IF ~Contains(ReadLine(file, 0).kw, "MSHX1")
    THEN [status |-> "MeshException", n |-> 0, pos |-> 0]
    ELSE FindGroups(file, 1)

\* the exception one directive line raises in read_group, "" when none
DirectiveError(line) ==
    IF Contains(line.kw, "MATERIAL") /\ NParts(line) < 2 THEN "MeshException"
    ELSE IF Contains(line.kw, "MATERIAL") /\ ~NumericArgs(line, 1) THEN "ValueError"
    ELSE IF Contains(line.kw, "TEXTURE") /\ NParts(line) < 2 THEN "MeshException"
    ELSE IF Contains(line.kw, "TEXTURE") /\ ~NumericArgs(line, 1) THEN "ValueError"
    ELSE IF Contains(line.kw, "TEXWRAP") /\ NParts(line) < 2 THEN "MeshException"
    ELSE IF Contains(line.kw, "FLAG") /\ NParts(line) < 2 THEN "IndexError"
    ELSE IF Contains(line.kw, "GEOM") /\ NParts(line) < 3 THEN "MeshException"
    ELSE IF Contains(line.kw, "GEOM") /\ ~NumericArgs(line, 2) THEN "ValueError"
    ELSE ""

\* the assignments one directive line makes in read_group
ApplyDirective(g, line) ==
    LET g1 == IF Contains(line.kw, "MATERIAL") THEN [g EXCEPT !.mat_index = line.nums[1]] ELSE g
        g2 == IF Contains(line.kw, "TEXTURE") THEN [g1 EXCEPT !.tex_index = line.nums[1]] ELSE g1
        g3 == IF Contains(line.kw, "TEXWRAP") THEN [g2 EXCEPT !.tex_wrap = line.text] ELSE g2
        g4 == IF Contains(line.kw, "NONORMAL") THEN [g3 EXCEPT !.nonormal = TRUE] ELSE g3
        g5 == IF Contains(line.kw, "FLAG") THEN [g4 EXCEPT !.flag = line.nums] ELSE g4
        g6 == IF Contains(line.kw, "LABEL")
              THEN [g5 EXCEPT !.name = Replace(line.text, " ", "_"), !.has_name = TRUE]
              ELSE g5
    IN  IF Contains(line.kw, "GEOM")
        THEN [g6 EXCEPT !.num_verts = line.nums[1], !.num_tris = line.nums[2]]
        ELSE g6

\* the "while True" of read_group: [status, group, pos]; at end of file readline
\* keeps returning '' and the loop never ends ("hang")
RECURSIVE ScanDirectives(_, _, _)
ScanDirectives(file, pos, g) ==
    IF pos >= Len(file) THEN [status |-> "hang", group |-> g, pos |-> pos]
    ELSE LET line == ReadLine(file, pos)
         IN  IF NParts(line) = 0 THEN ScanDirectives(file, pos + 1, g)
             ELSE IF DirectiveError(line) # ""
             THEN [status |-> DirectiveError(line), group |-> g, pos |-> pos]
             ELSE IF Contains(line.kw, "GEOM")
             THEN [status |-> "ok", group |-> ApplyDirective(g, line), pos |-> pos + 1]
             ELSE ScanDirectives(file, pos + 1, ApplyDirective(g, line))

\* the tokens of a data line
Tokens(line) == line.nums

read_group(file, pos) ==
    LET d == ScanDirectives(file, pos, NewImportGroup)
    IN  IF d.status # "ok" THEN d
        ELSE LET nv == d.group.num_verts
                 nt == d.group.num_tris
             IN  [status |-> "ok",
                  group |-> [d.group EXCEPT
                     !.verts = [i \in 1..nv |-> Tokens(ReadLine(file, d.pos + i - 1))],
                     !.tris = [i \in 1..nt |-> Tokens(ReadLine(file, d.pos + nv + i - 1))]],
                  pos |-> d.pos + nv + nt]

\* ImportMaterial.__init__ and the four data lines read_materials stores
ImportMaterial(name, data) == [name |-> name, data |-> data]

DefaultMaterial == ImportMaterial(<<"d", "e", "f", "a", "u", "l", "t">>, <<>>)

\* read_materials that takes the header line of a material body for its first
\* data line
read_materials_nohead(file, pos) ==
    LET head == ReadLine(file, pos)
    IN  IF NParts(head) < 2 \/ head.kw \notin {"MATERIALS"}
        THEN [status |-> "MeshException", materials |-> <<>>, pos |-> pos]
        ELSE IF ~NumericArgs(head, 1)
        THEN [status |-> "ValueError", materials |-> <<>>, pos |-> pos]
        ELSE LET n == head.nums[1]
                 body(i) == pos + n + 5 * (i - 1)
             IN  [status |-> "ok",
                  materials |->
                     <<DefaultMaterial>>
                     \o [i \in 1..n |->
                           ImportMaterial(ReadLine(file, pos + i).text,
                                          [k \in 1..4 |-> Tokens(ReadLine(file, body(i) + k))])],
                  pos |-> pos + 1 + n + 5 * n]

\* read_materials: [status, materials, pos]
read_materials(file, pos) ==
    LET head == ReadLine(file, pos)
    IN  IF NParts(head) < 2 \/ head.kw \notin {"MATERIALS"}
        THEN [status |-> "MeshException", materials |-> <<>>, pos |-> pos]
        ELSE IF ~NumericArgs(head, 1)
        THEN [status |-> "ValueError", materials |-> <<>>, pos |-> pos]
        ELSE LET n == head.nums[1]
                 body(i) == pos + 1 + n + 5 * (i - 1)
             IN  [status |-> "ok",
                  materials |->
                     <<DefaultMaterial>>
                     \o [i \in 1..n |->
                           ImportMaterial(ReadLine(file, pos + i).text,
                                          [k \in 1..4 |-> Tokens(ReadLine(file, body(i) + k))])],
                  pos |-> pos + 1 + n + 5 * n]

\* read_textures that flags a dynamic texture and keeps the suffix in its name
read_textures_keep(file, pos) ==
    LET head == ReadLine(file, pos)
    IN  IF NParts(head) < 2 \/ head.kw \notin {"TEXTURES"}
        THEN [status |-> "MeshException", textures |-> <<>>, pos |-> pos]
        ELSE IF ~NumericArgs(head, 1)
        THEN [status |-> "ValueError", textures |-> <<>>, pos |-> pos]
        ELSE LET n == head.nums[1]
                 tex(i) ==
                    LET t == ReadLine(file, pos + i).text
                    IN  [name |-> t, is_dynamic |-> t # <<>> /\ t[Len(t)] = DynSuffix]
             IN  [status |-> "ok",
                  textures |-> <<[name |-> <<>>, is_dynamic |-> FALSE]>>
                               \o [i \in 1..n |-> tex(i)],
                  pos |-> pos + 1 + n]

\* read_textures: [status, textures, pos]; a texture is <<name, is_dynamic>>
read_textures(file, pos) ==
    LET head == ReadLine(file, pos)
    IN  IF NParts(head) < 2 \/ head.kw \notin {"TEXTURES"}
        THEN [status |-> "MeshException", textures |-> <<>>, pos |-> pos]
        ELSE IF ~NumericArgs(head, 1)
        THEN [status |-> "ValueError", textures |-> <<>>, pos |-> pos]
        ELSE LET n == head.nums[1]
                 tex(i) ==
                    LET t == ReadLine(file, pos + i).text
                    IN  IF t # <<>> /\ t[Len(t)] = DynSuffix
                        THEN [name |-> SubSeq(t, 1, Len(t) - 1), is_dynamic |-> TRUE]
                        ELSE [name |-> t, is_dynamic |-> FALSE]
             IN  [status |-> "ok",
                  textures |-> <<[name |-> <<>>, is_dynamic |-> FALSE]>>
                               \o [i \in 1..n |-> tex(i)],
                  pos |-> pos + 1 + n]

\* get_verts: one vertex line; normals and uvs get an entry only for 3, 5, 6, 8 tokens
\* the import rule with the swap setting ignored
VertOf_swapped(vts, swap_yz) == <<vts[1], vts[3], vts[2]>>

VertOf(vts, swap_yz) ==
    IF swap_yz THEN <<vts[1], vts[3], vts[2]>> ELSE <<0 - vts[1], vts[2], vts[3]>>

NormalOf(vts, swap_yz) ==
    IF Len(vts) \in {3, 5} THEN <<<<0, 0, 0>>>>
    ELSE IF Len(vts) \in {6, 8}
    THEN IF swap_yz THEN <<<<vts[4], vts[6], vts[5]>>>>
         ELSE <<<<0 - vts[4], vts[5], vts[6]>>>>
    ELSE <<>>

UvOf(vts) ==
    IF Len(vts) \in {3, 6} THEN <<<<0, 0>>>>
    ELSE IF Len(vts) = 5 THEN <<<<vts[4], vts[5]>>>>
    ELSE IF Len(vts) = 8 THEN <<<<vts[7], vts[8]>>>>
    ELSE <<>>

get_verts(group, swap_yz) ==
    [verts |-> [i \in 1..Len(group.verts) |-> VertOf(group.verts[i], swap_yz)],
     normals |-> Flatten([i \in 1..Len(group.verts) |-> NormalOf(group.verts[i], swap_yz)]),
     uvs |-> Flatten([i \in 1..Len(group.verts) |-> UvOf(group.verts[i])])]

\* get_tris that keeps the file order
get_tris_asread(group) ==
    [i \in 1..Len(group.tris) |-> <<group.tris[i][1], group.tris[i][2], group.tris[i][3]>>]

\* get_tris: file order v0 v1 v2 becomes v0 v2 v1
get_tris(group) ==
    [i \in 1..Len(group.tris) |->
        <<group.tris[i][1], group.tris[i][3], group.tris[i][2]>>]

\* read_mesh_file: header, the groups, then both catalogues
ReadHeader ==
    /\ pc = "exported"
    /\ LET r == ensure_mesh(mesh_file)
       IN  /\ rd' = [NewReader EXCEPT !.pos = r.pos, !.n_groups = r.n]
           /\ pc' = IF r.status # "ok" THEN r.status
                    ELSE IF r.n = 0 THEN "read_materials" ELSE "read_group"
    /\ UNCHANGED <<config, scene, objs, gi, ti, ci, cur, export_tri_face, export_faces,
                   groups, mat_names, tex_names, dyn_texs, mesh_file, host, bpy_data,
                   include_file, build>>

ReadGroup ==
    /\ pc = "read_group"
    /\ LET r == read_group(mesh_file, rd.pos)
       IN  IF r.status # "ok"
           THEN /\ pc' = r.status
                /\ UNCHANGED rd
           ELSE /\ rd' = [rd EXCEPT !.pos = r.pos, !.groups = Append(rd.groups, r.group)]
                /\ pc' = IF Len(rd.groups) + 1 = rd.n_groups
                         THEN "read_materials" ELSE "read_group"
    /\ UNCHANGED <<config, scene, objs, gi, ti, ci, cur, export_tri_face, export_faces,
                   groups, mat_names, tex_names, dyn_texs, mesh_file, host, bpy_data,
                   include_file, build>>

ReadCatalogues ==
    /\ pc = "read_materials"
    /\ LET m == read_materials(mesh_file, rd.pos)
           t == read_textures(mesh_file, m.pos)
       IN  IF m.status # "ok"
           THEN /\ pc' = m.status
                /\ UNCHANGED rd
           ELSE IF t.status # "ok"
           THEN /\ pc' = t.status
                /\ UNCHANGED rd
           ELSE /\ rd' = [rd EXCEPT !.pos = t.pos, !.materials = m.materials,
                                    !.textures = t.textures]
                /\ pc' = "build_mat_textures"
    /\ UNCHANGED <<config, scene, objs, gi, ti, ci, cur, export_tri_face, export_faces,
                   groups, mat_names, tex_names, dyn_texs, mesh_file, host, bpy_data,
                   include_file, build>>

\* every order in which the elements of a set can be met
Orders(S) == {order \in [1..Cardinality(S) -> S] : Range(order) = S}

\* mat_tex taken as the list of the groups' pairs, a pair once per group
MatTex_pergroup(mesh_groups) ==
    {[i \in 1..Len(mesh_groups) |->
        <<mesh_groups[i].mat_index, mesh_groups[i].tex_index>>]}

\* mat_tex = list(set(mat_tex)): the distinct (material, texture) pairs of the
\* groups, in whatever order the set gives them
MatTex(mesh_groups) ==
    Orders({<<mesh_groups[i].mat_index, mesh_groups[i].tex_index>> :
              i \in 1..Len(mesh_groups)})

\* build_mat_textures for the pairs in the order met: [status, created, dict].
\* A material index above len(materials) is replaced by 0 with a warning;
\* materials[mat_idx] and textures[tex_idx] raise IndexError past the end.
\* created are the materials made before the first pair that raises; texture
\* files are taken as found under the Orbiter path.
build_mat_textures(mat_tex, materials, textures) ==
    LET max_mat_idx == Len(materials)
        mat_idx(k) == IF mat_tex[k][1] > max_mat_idx THEN 0 ELSE mat_tex[k][1]
        raises(k) == mat_idx(k) >= Len(materials) \/ mat_tex[k][2] >= Len(textures)
        done == IF \E k \in 1..Len(mat_tex) : raises(k)
                THEN (CHOOSE k \in 1..Len(mat_tex) :
                         raises(k) /\ \A j \in 1..(k - 1) : ~raises(j)) - 1
                ELSE Len(mat_tex)
    IN  [status |-> IF done = Len(mat_tex) THEN "ok" ELSE "IndexError",
         created |-> [k \in 1..done |->
                        [pair |-> mat_tex[k],
                         src_mat |-> materials[mat_idx(k) + 1],
                         src_tex |-> textures[mat_tex[k][2] + 1].name,
                         warned |-> mat_tex[k][1] > max_mat_idx]],
         dict |-> [mt \in {mat_tex[k] : k \in 1..done} |->
                     CHOOSE k \in 1..done : mat_tex[k] = mt /\
                        \A j \in (k + 1)..done : mat_tex[j] # mt]]

\* import_mesh: build_mat_textures, then bpy.data.scenes.new
BuildMatTextures ==
    /\ pc = "build_mat_textures"
    /\ \E mat_tex \in MatTex(rd.groups) :
          LET r == build_mat_textures(mat_tex, rd.materials, rd.textures)
          IN  /\ bpy_data' = [materials |-> bpy_data.materials \o r.created,
                              scenes |-> IF r.status = "ok" THEN bpy_data.scenes + 1
                                         ELSE bpy_data.scenes]
              /\ rd' = [rd EXCEPT !.mat_dict = r.dict]
              /\ pc' = IF r.status # "ok" THEN r.status
                       ELSE IF rd.groups = <<>> THEN "imported" ELSE "build_mesh"
    /\ UNCHANGED <<config, scene, objs, gi, ti, ci, cur, export_tri_face, export_faces,
                   groups, mat_names, tex_names, dyn_texs, mesh_file, host,
                   include_file, build>>

\* the list indexing of get_verts, get_tris and import_mesh that raises
\* IndexError: vts[2] or tr[2] on a short line, normals[l.vertex_index] and
\* uvs[i_vert] when a face names a vertex the list has no entry for
IndexErrorIn(group) ==
    \/ \E i \in 1..Len(group.verts) : Len(group.verts[i]) < 3
    \/ \E i \in 1..Len(group.tris) : Len(group.tris[i]) < 3
    \/ LET vs == get_verts(group, TRUE)
           used == UNION {Range(get_tris(group)[i]) : i \in 1..Len(group.tris)}
       IN  \/ vs.normals # <<>> /\ \E v \in used : v >= Len(vs.normals)
           \/ group.tex_index # 0 /\ \E v \in used : v >= Len(vs.uvs)

\* import_mesh: one turn of "for idx, group in enumerate(groups)" up to the uv layer
BuildHostMesh ==
    /\ pc = "build_mesh"
    /\ LET group == rd.groups[Len(host) + 1]
       IN  IF IndexErrorIn(group)
           THEN /\ pc' = "IndexError"
                /\ UNCHANGED host
           ELSE LET vs == get_verts(group, config.swap_yz)
                    mesh == [name |-> group.name,
                             verts |-> vs.verts,
                             normals |-> vs.normals,
                             tris |-> get_tris(group),
                             has_uv |-> group.tex_index # 0,
                             uvs |-> IF group.tex_index # 0
                                     THEN [i \in 1..Len(vs.uvs) |->
                                             <<vs.uvs[i][1], One - vs.uvs[i][2]>>]
                                     ELSE <<>>]
                IN  /\ host' = Append(host, mesh)
                    /\ pc' = IF Len(host) + 1 = Len(rd.groups)
                             THEN "imported" ELSE "build_mesh"
    /\ UNCHANGED <<config, scene, objs, gi, ti, ci, cur, export_tri_face, export_faces,
                   groups, mat_names, tex_names, dyn_texs, mesh_file, rd, bpy_data,
                   include_file, build>>

-----------------------------------------------------------------------------
(* Specifications *)

Idle ==
    /\ groups = <<>> /\ mat_names = <<>> /\ tex_names = <<>> /\ dyn_texs = <<>>
    /\ mesh_file = <<>> /\ rd = NewReader /\ host = <<>>
    /\ bpy_data = NewBpyData /\ include_file = <<>> /\ build = NoBuild
    /\ pc = "start" /\ gi = 1 /\ ti = 1 /\ ci = 0
    /\ cur = EmptyGroup /\ export_tri_face = <<>> /\ export_faces = <<>>

\* one mesh object with up to MaxTris triangles of every kind, every axis setting
InitGeometry ==
    /\ config \in [swap_yz : BOOLEAN, parse_material_name : {FALSE},
                   sort_method : {"SORTORDER"}, build_include_file : {TRUE}]
    /\ scene \in [orbiter_is_2d_panel : BOOLEAN]
    /\ \E tris \in SeqsUpTo(HostTris, MaxTris), img \in {NoImage, Image(TexPathA)} :
          objs = <<HostObject(<<"G">>, <<HostMaterial(MatHull, img, FALSE)>>, TRUE, 50, tris)>>
    /\ Idle

NextGeometry == ExportStart \/ MeshGroupInit \/ ProcessCorner \/ MeshGroupFinish

SpecGeometry == InitGeometry /\ [][NextGeometry]_vars

\* triangles whose free corner is corner 0
RoundTripTris == {t \in HostTris : t.normals[2] = NormA /\ t.uvs[2] = UvA
                                   /\ t.normals[3] = NormA /\ t.uvs[3] = UvA}

\* one mesh object written and read back
InitRoundTrip ==
    /\ config \in [swap_yz : BOOLEAN, parse_material_name : {FALSE},
                   sort_method : {"SORTORDER"}, build_include_file : {TRUE}]
    /\ scene \in [orbiter_is_2d_panel : BOOLEAN]
    /\ \E tris \in SeqsUpTo(RoundTripTris, MaxTris), img \in {NoImage, Image(TexPathA)} :
          objs = <<HostObject(<<"G">>, <<HostMaterial(MatHull, img, FALSE)>>, TRUE, 50, tris)>>
    /\ Idle

\* names of the mesh objects, by position in scene.objects
ObjName(i) ==
    CASE i = 1 -> <<"B">> [] i = 2 -> <<"A", " ", "b">> [] i = 3 -> <<"C">>
      [] OTHER -> <<"A">>

\* a single triangle whose corners agree
PlainTris == <<HostTri(<<0, 1, 2>>, <<NormA, NormA, NormA>>, <<UvA, UvA, UvA>>)>>

\* what a material of bpy.data.materials may carry: <<image, orbiter_is_dynamic>>
MaterialKinds ==
    {<<NoImage, FALSE>>, <<Image(TexPathA), TRUE>>, <<Image(TexPathC), FALSE>>,
     <<Image(TexPathB), FALSE>>}

\* bpy.data.materials: names are unique, so a name stands for one material
CatalogueMaterials == [{MatHull, MatWing} -> MaterialKinds]

\* up to MaxGroups mesh objects with every material and texture assignment
InitCatalogue ==
    /\ config \in [swap_yz : {TRUE}, parse_material_name : BOOLEAN,
                   sort_method : {"SORTORDER", "GROUPNAMEASC", "GROUPNAMEDESC"},
                   build_include_file : BOOLEAN]
    /\ scene = [orbiter_is_2d_panel |-> FALSE]
    /\ \E n \in 0..MaxGroups :
          \E data \in CatalogueMaterials, mats \in [1..n -> {MatHull, MatWing}],
             orders \in [1..n -> IF config.sort_method = "SORTORDER" THEN {10, 50} ELSE {50}] :
             objs = [i \in 1..n |->
                       HostObject(ObjName(i),
                                  <<HostMaterial(mats[i], data[mats[i]][1], data[mats[i]][2])>>,
                                  TRUE, orders[i], PlainTris)]
    /\ Idle

Init == InitRoundTrip \/ InitCatalogue

Next ==
    \/ ExportStart \/ MeshGroupInit \/ ProcessCorner \/ MeshGroupFinish
    \/ SortGroups \/ WriteHeader \/ WriteGroup \/ WriteMaterials \/ WriteTextures
    \/ ReadHeader \/ ReadGroup \/ ReadCatalogues \/ BuildMatTextures \/ BuildHostMesh

Spec == Init /\ [][Next]_vars

\* corner attributes on the edge of their range: the uv of the top left corner
\* of an image, the normal of a degenerate face, a single component at 0
UvTopLeft == <<0, One>>
NormZero == <<0, 0, 0>>
EdgeAttrs == {AttrA, [n |-> NormA, uv |-> UvTopLeft], [n |-> NormZero, uv |-> UvA],
              [n |-> NormZero, uv |-> UvTopLeft],
              [n |-> <<0, 20000, 40000>>, uv |-> <<0, 12500>>]}

EdgeTris ==
    {HostTri(<<0, 1, 2>>, <<a.n, b.n, c.n>>, <<a.uv, b.uv, c.uv>>) :
        a \in EdgeAttrs, b \in EdgeAttrs, c \in EdgeAttrs}

\* a quad of four positions as two triangles whose corners agree
QuadObject(slots) ==
    [HostObject(<<"H">>, slots, FALSE, 50, <<>>) EXCEPT
        !.vertices = [i \in 1..4 |-> HostPos(i - 1)],
        !.loop_triangles =
            <<HostTri(<<0, 1, 2>>, <<NormA, NormA, NormA>>, <<UvA, UvA, UvA>>),
              HostTri(<<0, 2, 3>>, <<NormA, NormA, NormA>>, <<UvA, UvA, UvA>>)>>]

\* one mesh object: a triangle with edge attributes, or a quad that has no
\* material slot, an empty slot, or a material without image
InitEdge ==
    /\ config \in [swap_yz : BOOLEAN, parse_material_name : {FALSE},
                   sort_method : {"SORTORDER"}, build_include_file : {TRUE}]
    /\ scene \in [orbiter_is_2d_panel : BOOLEAN]
    /\ \/ \E t \in EdgeTris, img \in {NoImage, Image(TexPathA)} :
             objs = <<HostObject(<<"G">>, <<HostMaterial(MatHull, img, FALSE)>>,
                                 TRUE, 50, <<t>>)>>
       \/ \E slots \in {<<>>, <<NoneMaterial>>, <<HostMaterial(MatHull, NoImage, FALSE)>>} :
             objs = <<QuadObject(slots)>>
    /\ Idle

SpecEdge == InitEdge /\ [][Next]_vars

-----------------------------------------------------------------------------
(* Files handed to the importer: well formed and not *)

\* largest MATERIAL index of a record: one past the fallback threshold of a
\* file that declares two materials
MaxMaterial == 4

\* a vertex line of k tokens for vertex i of a record
VertexLine(i, k) == Line("vertex", "", <<>>, [j \in 1..k |-> 1000 * i + 10 * j])

\* the directives of a group record up to GEOM, and what follows GEOM 3 1
RecordHead(tex) ==
    <<Line("directive", "LABEL", <<"G">>, <<>>),
      Line("directive", "MATERIAL", <<>>, <<0>>),
      Line("directive", "TEXTURE", <<>>, <<tex>>),
      Line("directive", "FLAG", <<>>, <<0>>)>>

RecordBody(counts) ==
    <<Line("geom", "GEOM", <<>>, <<3, 1>>)>>
    \o [i \in 1..3 |-> VertexLine(i, counts[i])]
    \o <<Line("triangle", "", <<>>, <<0, 2, 1>>)>>

\* the token counts of the three vertex lines of a record
TokenCounts ==
    {<<k, k, k>> : k \in {2, 3, 4, 5, 6, 7, 8}} \cup {<<4, 8, 8>>, <<8, 8, 7>>}

\* group records: complete ones, ones with blank lines, ones without GEOM
\* and one whose GEOM has a single number
GroupRecords ==
    {RecordHead(0) \o RecordBody(c) : c \in TokenCounts}
    \cup {RecordHead(1) \o RecordBody(<<8, 8, 8>>),
          <<BlankLine>> \o RecordHead(1) \o <<BlankLine>> \o RecordBody(<<5, 5, 5>>),
          RecordHead(0),
          RecordHead(0) \o <<BlankLine, BlankLine>>,
          RecordHead(0) \o <<Line("geom", "GEOM", <<>>, <<3>>)>>,
          RecordHead(0) \o <<Line("geom", "geom", <<>>, <<0, 0>>)>>}
    \cup {[RecordHead(0) EXCEPT ![2] = Line("directive", "MATERIAL", <<>>, <<mat>>)]
            \o RecordBody(<<3, 3, 3>>) : mat \in 1..MaxMaterial}

\* the body of the i-th material, four data lines
MaterialBody(i) ==
    [k \in 1..4 |-> Line("colour", "", <<>>, [j \in 1..4 |-> 100 * i + 10 * k + j])]

\* a MATERIALS block of n materials under header keyword kw
MaterialsBlock(kw, n) ==
    <<Line("header", kw, <<>>, <<n>>)>>
    \o [i \in 1..n |-> Line("matname", "", <<MatHull, MatWing>>[i], <<>>)]
    \o Flatten([i \in 1..n |->
                  <<Line("mathead", "MATERIAL", <<MatHull, MatWing>>[i], <<>>)>>
                  \o MaterialBody(i)])

\* a TEXTURES block of one dynamic texture
TexturesBlock ==
    <<Line("header", "TEXTURES", <<>>, <<1>>),
      Line("texname", "", <<"a.dds", DynSuffix>>, <<>>)>>

\* a line that holds a comment only: "; c"
CommentLine == Line("comment", ";", <<"c">>, <<>>)

\* a file: header line, GROUPS line, the records, both blocks
MeshFile(header, declared, records, mats, texs) ==
    <<Line("header", header, <<>>, <<>>), Line("header", "GROUPS", <<>>, <<declared>>)>>
    \o Flatten(records) \o mats \o texs

\* the files: complete ones, ones that end after the groups, ones with another
\* header line, an empty one, one that starts with a blank line, ones with
\* blank or comment lines before the GROUPS line and ones without that line
ReaderFiles ==
    {MeshFile("MSHX1", Len(records), records, mats, texs) :
        records \in SeqsUpTo(GroupRecords, MaxGroups),
        mats \in {MaterialsBlock("MATERIALS", 0), MaterialsBlock("MATERIALS", 1),
                  MaterialsBlock("MATERIALS", 2), MaterialsBlock("materials", 1), <<>>},
        texs \in {TexturesBlock, <<>>}}
    \cup {MeshFile(header, Len(records), records, MaterialsBlock("MATERIALS", 1), <<>>) :
            header \in {"mshx1", "Mshx1", "mSHx1", "MSHX", "MSH", "LABEL"},
            records \in SeqsUpTo(GroupRecords, 1)}
    \cup {<<>>, <<BlankLine, Line("header", "MSHX1", <<>>, <<>>)>>}
    \cup {<<Line("header", "MSHX1", <<>>, <<>>)>> \o before
          \o <<Line("header", groups_kw, <<>>, <<Len(records)>>)>>
          \o Flatten(records) \o MaterialsBlock("MATERIALS", 1) \o TexturesBlock :
            before \in SeqsUpTo({BlankLine, CommentLine}, 2),
            groups_kw \in {"GROUPS", "groups"},
            records \in SeqsUpTo({RecordHead(0) \o RecordBody(<<6, 6, 6>>)}, 1)}
    \cup {<<Line("header", "MSHX1", <<>>, <<>>)>> \o before :
            before \in SeqsUpTo({CommentLine}, 2)}

\* read_mesh_file and import_mesh on a file that some other program wrote
InitReader ==
    /\ config \in [swap_yz : BOOLEAN, parse_material_name : {FALSE},
                   sort_method : {"SORTORDER"}, build_include_file : {TRUE}]
    /\ scene = [orbiter_is_2d_panel |-> FALSE]
    /\ objs = <<>>
    /\ groups = <<>> /\ mat_names = <<>> /\ tex_names = <<>> /\ dyn_texs = <<>>
    /\ mesh_file \in ReaderFiles
    /\ rd = NewReader /\ host = <<>>
    /\ bpy_data = NewBpyData /\ include_file = <<>> /\ build = NoBuild
    /\ pc = "exported" /\ gi = 1 /\ ti = 1 /\ ci = 0
    /\ cur = EmptyGroup /\ export_tri_face = <<>> /\ export_faces = <<>>

NextReader ==
    ReadHeader \/ ReadGroup \/ ReadCatalogues \/ BuildMatTextures \/ BuildHostMesh

SpecReader == InitReader /\ [][NextReader]_vars

-----------------------------------------------------------------------------
(* OrbiterBuildMesh.execute: the settings, every scene, the files *)

\* most scenes of a build
MaxScenes == 2

\* a scene of one group, and what goes wrong when it is exported: nothing, an
\* object without material slot (IndexError in MeshGroup), a mesh path that
\* cannot be opened, a write that fails
BuildScenes ==
    {[groups |-> <<[EmptyGroup EXCEPT !.name = <<"G">>, !.num_vertices = 3]>>,
      tex_names |-> <<<<"a.dds">>>>, fault |-> f] :
        f \in {"none", "IndexError", "open", "write"}}

\* __exit__ that closes the log file only
OrbiterBuildSettings_exit_logonly(settings) ==
    [settings EXCEPT !.log_file = IF settings.verbose THEN "closed" ELSE @]

\* OrbiterBuildSettings.__exit__
OrbiterBuildSettings_exit(settings) ==
    [settings EXCEPT
        !.include = IF settings.build_include_file THEN "closed" ELSE @,
        !.log_file = IF settings.verbose THEN "closed" ELSE @]

\* "except Exception: config.log_line(traceback.format_exc()); raise", which
\* leaves the "with" of the settings
Raise(settings) ==
    OrbiterBuildSettings_exit(
        [settings EXCEPT !.log = IF settings.verbose THEN Append(@, "traceback") ELSE @])

\* execute is called with the settings of the home scene
InitBuild ==
    /\ config \in [swap_yz : {TRUE}, parse_material_name : {FALSE},
                   sort_method : {"SORTORDER"}, build_include_file : {TRUE}]
    /\ scene = [orbiter_is_2d_panel |-> FALSE]
    /\ objs = <<>>
    /\ groups = <<>> /\ mat_names = <<>> /\ tex_names = <<>> /\ dyn_texs = <<>>
    /\ mesh_file = <<>> /\ rd = NewReader /\ host = <<>>
    /\ bpy_data = NewBpyData /\ include_file = <<>>
    /\ \E verbose \in BOOLEAN, build_include_file \in BOOLEAN,
          scenes \in SeqsUpTo(BuildScenes, MaxScenes) \ {<<>>} :
          build = [NoBuild EXCEPT !.verbose = verbose,
                                  !.build_include_file = build_include_file,
                                  !.scenes = scenes]
    /\ pc = "execute" /\ gi = 1 /\ ti = 1 /\ ci = 0
    /\ cur = EmptyGroup /\ export_tri_face = <<>> /\ export_faces = <<>>

\* OrbiterBuildSettings.__init__ and execute up to "try": the log file and the
\* include file are opened, or not, and the head of the include file written
BuildStart ==
    /\ pc = "execute"
    /\ \E log_opens \in BOOLEAN, include_opens \in BOOLEAN :
          LET verbose == build.verbose /\ log_opens
              failed == build.build_include_file /\ ~include_opens
              settings ==
                 [build EXCEPT
                    !.verbose = verbose,
                    !.log_file = IF verbose THEN "open" ELSE "none",
                    !.build_include_file = build.build_include_file /\ include_opens,
                    !.include = IF build.build_include_file /\ include_opens
                                THEN "open" ELSE "none",
                    !.include_failed = failed,
                    !.log = IF verbose /\ failed THEN <<"include_error">> ELSE <<>>]
          IN  /\ build' = settings
              /\ include_file' =
                    write_to_include(settings, include_file, <<IncLine("head", <<>>, 0)>>)
    /\ pc' = "scene_groups"
    /\ UNCHANGED <<config, scene, objs, gi, ti, ci, cur, export_tri_face, export_faces,
                   groups, mat_names, tex_names, dyn_texs, mesh_file, rd, host, bpy_data>>

\* export_orbiter of the next scene up to the list of MeshGroups
SceneGroups ==
    /\ pc = "scene_groups"
    /\ build.si <= Len(build.scenes)
    /\ IF build.scenes[build.si].fault = "IndexError"
       THEN build' = Raise(build) /\ pc' = "raised"
       ELSE UNCHANGED build /\ pc' = "scene_open"
    /\ UNCHANGED <<config, scene, objs, gi, ti, ci, cur, export_tri_face, export_faces,
                   groups, mat_names, tex_names, dyn_texs, mesh_file, rd, host, bpy_data,
                   include_file>>

\* export_orbiter: open(mesh_path, "w")
SceneOpen ==
    /\ pc = "scene_open"
    /\ IF build.scenes[build.si].fault = "open"
       THEN build' = Raise(build) /\ pc' = "raised"
       ELSE /\ build' = [build EXCEPT !.mesh_files =
                            Append(@, [state |-> "open", complete |-> FALSE])]
            /\ pc' = "scene_write"
    /\ UNCHANGED <<config, scene, objs, gi, ti, ci, cur, export_tri_face, export_faces,
                   groups, mat_names, tex_names, dyn_texs, mesh_file, rd, host, bpy_data,
                   include_file>>

\* export_orbiter: the writes inside "with", the file closed on leaving it,
\* then build_include
SceneWrite ==
    /\ pc = "scene_write"
    /\ LET sc == build.scenes[build.si]
           closed(complete) ==
              [build EXCEPT !.mesh_files[Len(build.mesh_files)] =
                               [state |-> "closed", complete |-> complete]]
       IN  IF sc.fault = "write"
           THEN /\ build' = Raise(closed(FALSE))
                /\ pc' = "raised"
                /\ UNCHANGED include_file
           ELSE /\ build' = [closed(TRUE) EXCEPT !.si = build.si + 1]
                /\ include_file' =
                      build_include(build, include_file, sc.groups, sc.tex_names)
                /\ pc' = "scene_groups"
    /\ UNCHANGED <<config, scene, objs, gi, ti, ci, cur, export_tri_face, export_faces,
                   groups, mat_names, tex_names, dyn_texs, mesh_file, rd, host, bpy_data>>

\* execute after the last scene: the include file is ended, "with" is left
BuildFinish ==
    /\ pc = "scene_groups"
    /\ build.si > Len(build.scenes)
    /\ include_file' = write_to_include(build, include_file, <<IncLine("endif", <<>>, 0)>>)
    /\ build' = OrbiterBuildSettings_exit(build)
    /\ pc' = "finished"
    /\ UNCHANGED <<config, scene, objs, gi, ti, ci, cur, export_tri_face, export_faces,
                   groups, mat_names, tex_names, dyn_texs, mesh_file, rd, host, bpy_data>>

NextBuild == BuildStart \/ SceneGroups \/ SceneOpen \/ SceneWrite \/ BuildFinish

SpecBuild == InitBuild /\ [][NextBuild]_vars

-----------------------------------------------------------------------------
(* What the claims speak of *)

\* the export table of the specification, section 4.1
ExportTable(vec, swap_axis, is_2d_panel) ==
    IF swap_axis /\ ~is_2d_panel THEN <<vec[1], vec[3], vec[2]>>
    ELSE IF swap_axis /\ is_2d_panel THEN <<vec[1], 0 - vec[3], 0>>
    ELSE IF ~swap_axis /\ ~is_2d_panel THEN <<0 - vec[1], vec[2], vec[3]>>
    ELSE <<vec[1], vec[2], 0>>

\* the UV convention of section 4.1
ExportUV(uv, is_2d_panel) ==
    <<uv[1], IF is_2d_panel THEN uv[2] ELSE One - uv[2]>>

Near(a, b) == Abs(a - b) < Tol

NearVec(a, b) == \A i \in 1..Len(a) : Near(a[i], b[i])

\* the mesh object a group was built from (object names are unique in a scene)
ObjOf(g) == CHOOSE o \in Range(objs) : Replace(o.name, " ", "_") = g.name

\* the index an emitted Triangle holds for host corner c (from_dict undone)
CornerIndex(tri, c) == IF c = 0 THEN tri.v1 ELSE IF c = 1 THEN tri.v3 ELSE tri.v2

Building == pc \in {"corners", "mesh_finish"}

\* the corners of a host mesh in processing order: <<triangle, corner>> pairs
CornersOf(obj) ==
    [n \in 1..(3 * Len(obj.loop_triangles)) |-> <<((n - 1) \div 3) + 1, (n - 1) % 3>>]

Normal3(e) == <<e.nx, e.ny, e.nz>>
Uv2(e) == <<e.u, e.v>>
Pos3(e) == <<e.x, e.y, e.z>>

\* every corner of the triangles emitted so far points at an entry that holds,
\* within tolerance, the normal (and the uv, when textured) the corner requires
CornersServed(obj, vertices_dict, tris, textured) ==
    \A k \in 1..Len(tris) : \A c \in 0..2 :
        LET idx == CornerIndex(tris[k], c)
            need_n == ExportTable(obj.loop_triangles[k].normals[c + 1],
                                  config.swap_yz, scene.orbiter_is_2d_panel)
            need_uv == ExportUV(obj.loop_triangles[k].uvs[c + 1],
                                scene.orbiter_is_2d_panel)
        IN  /\ idx \in DOMAIN vertices_dict
            /\ vertices_dict[idx].n_set
            /\ NearVec(Normal3(vertices_dict[idx]), need_n)
            /\ textured =>
                  /\ vertices_dict[idx].uv_set
                  /\ NearVec(Uv2(vertices_dict[idx]), need_uv)

\* C1: in a scene that is not a 2D panel, every corner of every emitted
\* triangle references an entry whose normal, and whose UV when the group is
\* textured, is within 0.001 per component of the export-transformed normal
\* and UV of that corner.
C1_CornersServed ==
    ~scene.orbiter_is_2d_panel =>
        /\ Building => CornersServed(objs[gi], cur.vertices_dict, export_faces, cur.has_uv)
        /\ \A i \in 1..Len(groups) :
              CornersServed(ObjOf(groups[i]), groups[i].vertices_dict,
                            groups[i].triangles_list, groups[i].has_uv)

\* a finished textured group of a non-panel scene in which a corner was split off
C1_Witness ==
    /\ ~scene.orbiter_is_2d_panel
    /\ Len(groups) = 1
    /\ groups[1].has_uv
    /\ groups[1].num_faces = 2
    /\ groups[1].num_vertices > Len(objs[1].vertices)

\* the keys of a vertex table are 0..n-1 and every index given is a key
TableSound(vertices_dict, n, tris) ==
    /\ DOMAIN vertices_dict = 0..(n - 1)
    /\ \A k \in 1..Len(tris) : {tris[k].v1, tris[k].v2, tris[k].v3} \subseteq DOMAIN vertices_dict

\* C2: in every group the vertex table keys are exactly 0..num_vertices-1 and
\* each index of every triangle is one of them, whatever was duplicated.
C2_IndicesValid ==
    /\ \A i \in 1..Len(groups) :
          TableSound(groups[i].vertices_dict, groups[i].num_vertices,
                     groups[i].triangles_list)
    /\ Building =>
          /\ TableSound(cur.vertices_dict, Cardinality(DOMAIN cur.vertices_dict),
                        export_faces)
          /\ \A c \in DOMAIN export_tri_face : export_tri_face[c] \in DOMAIN cur.vertices_dict

\* a finished group that took two duplications
C2_Witness ==
    /\ Len(groups) = 1
    /\ groups[1].num_vertices >= Len(objs[1].vertices) + 2

CornersAt(obj, h) ==
    SelectSeq(CornersOf(obj), LAMBDA cn : obj.loop_triangles[cn[1]].vertices[cn[2] + 1] = h)

HostNormal(obj, cn) == obj.loop_triangles[cn[1]].normals[cn[2] + 1]
HostUv(obj, cn) == obj.loop_triangles[cn[1]].uvs[cn[2] + 1]

\* the host vertex (0-based) an entry was made for: the seed with its position
HostVertexOf(vertices_dict, obj, e) ==
    CHOOSE h \in 0..(Len(obj.vertices) - 1) : Pos3(vertices_dict[h]) = Pos3(e)

\* every entry that holds a normal holds the table image of the normal of one of
\* the corners of its host vertex
NormalsFromTable(obj, vertices_dict) ==
    \A k \in DOMAIN vertices_dict :
        vertices_dict[k].n_set =>
           LET cs == CornersAt(obj, HostVertexOf(vertices_dict, obj, vertices_dict[k]))
           IN  \E i \in 1..Len(cs) :
                  Normal3(vertices_dict[k]) =
                     ExportTable(HostNormal(obj, cs[i]), config.swap_yz,
                                 scene.orbiter_is_2d_panel)

\* C7: every stored normal, set in place by set_normal or given to a duplicate
\* by from_Vertex, is the image of its corner's host normal under the export
\* table row of the scene's (swap_axis, is_2d_panel), panel rows included.
C7_NormalTable ==
    /\ Building => NormalsFromTable(objs[gi], cur.vertices_dict)
    /\ \A i \in 1..Len(groups) : NormalsFromTable(ObjOf(groups[i]), groups[i].vertices_dict)

\* what holds of C7 in the code: the table rows of scenes that are not panels
C7_NormalTableNonPanel == ~scene.orbiter_is_2d_panel => C7_NormalTable

\* every entry that holds a UV holds (u, 1 - v) of a corner of its host vertex,
\* and (u, v) in a 2D panel
UvsFromConvention(obj, vertices_dict) ==
    \A k \in DOMAIN vertices_dict :
        vertices_dict[k].uv_set =>
           LET cs == CornersAt(obj, HostVertexOf(vertices_dict, obj, vertices_dict[k]))
           IN  \E i \in 1..Len(cs) :
                  Uv2(vertices_dict[k]) =
                     ExportUV(HostUv(obj, cs[i]), scene.orbiter_is_2d_panel)

\* C8: every entry of a textured group, original or duplicated, stores U
\* unchanged and V as 1 - v for a standard mesh, as v unchanged for a 2D panel.
C8_StoredUV ==
    /\ Building /\ cur.has_uv => UvsFromConvention(objs[gi], cur.vertices_dict)
    /\ \A i \in 1..Len(groups) :
          groups[i].has_uv => UvsFromConvention(ObjOf(groups[i]), groups[i].vertices_dict)

\* what holds of C8 in the code: the standard-mesh half
C8_StoredUVNonPanel == ~scene.orbiter_is_2d_panel => C8_StoredUV

\* a later corner conflicts with the first one of its host vertex
Conflicts(obj, first, later, textured) ==
    \/ ~NearVec(HostNormal(obj, first), HostNormal(obj, later))
    \/ textured /\ ~NearVec(HostUv(obj, first), HostUv(obj, later))

\* the keys of the entries made for host vertex h
EntriesAt(vertices_dict, h) ==
    {k \in DOMAIN vertices_dict : Pos3(vertices_dict[k]) = Pos3(vertices_dict[h])}

\* one entry, plus one per later corner that conflicts with the first
EntryCount(g, obj) ==
    \A h \in 0..(Len(obj.vertices) - 1) :
        LET cs == CornersAt(obj, h)
        IN  Cardinality(EntriesAt(g.vertices_dict, h)) =
               1 + Cardinality({i \in 2..Len(cs) : Conflicts(obj, cs[1], cs[i], g.has_uv)})

\* two corners of one host vertex with different UVs: two entries, differing in u,v
TwoUvsTwoEntries(g, obj) ==
    \A h \in 0..(Len(obj.vertices) - 1) :
        LET cs == CornersAt(obj, h)
        IN  (g.has_uv /\ Len(cs) = 2 /\ HostUv(obj, cs[1]) # HostUv(obj, cs[2])
                      /\ ~NearVec(HostUv(obj, cs[1]), HostUv(obj, cs[2]))) =>
               /\ Cardinality(EntriesAt(g.vertices_dict, h)) = 2
               /\ \A a \in EntriesAt(g.vertices_dict, h), b \in EntriesAt(g.vertices_dict, h) :
                     a # b => Uv2(g.vertices_dict[a]) # Uv2(g.vertices_dict[b])

\* the count half of C9, which the code keeps in every scene
C9_EntryCount ==
    \A i \in 1..Len(groups) : EntryCount(groups[i], ObjOf(groups[i]))

\* C9: a host vertex whose corners all agree with the first one has exactly one
\* entry; each later conflicting corner adds exactly one entry with the same
\* x,y,z; two corners with different UVs give exactly 2 entries that differ in u,v.
C9_OneEntryPerConflict ==
    \A i \in 1..Len(groups) :
        /\ EntryCount(groups[i], ObjOf(groups[i]))
        /\ TwoUvsTwoEntries(groups[i], ObjOf(groups[i]))

\* the positions in the file of the lines of one kind
LinesOfKind(kind) == {p \in 1..Len(mesh_file) : mesh_file[p].kind = kind}

\* the lines of the file that carry directive kw, in file order
Directives(kw) ==
    SelectSeq(mesh_file, LAMBDA l : l.kind = "directive" /\ l.kw = kw)

\* C3: the two numbers of every GEOM line equal the number of vertex lines
\* and the number of triangle lines written immediately after it.
C3_GeomCounts ==
    \A p \in LinesOfKind("geom") :
        LET nv == mesh_file[p].nums[1]
            nt == mesh_file[p].nums[2]
        IN  /\ p + nv + nt <= Len(mesh_file)
            /\ \A q \in (p + 1)..(p + nv) : mesh_file[q].kind = "vertex"
            /\ \A q \in (p + nv + 1)..(p + nv + nt) : mesh_file[q].kind = "triangle"
            /\ p + nv + nt < Len(mesh_file) =>
                  mesh_file[p + nv + nt + 1].kind \notin {"vertex", "triangle"}

\* a written group with a duplicated vertex and two triangles
C3_Witness ==
    /\ pc = "exported"
    /\ \E p \in LinesOfKind("geom") : mesh_file[p].nums = <<MaxVerts + 1, 2>>

\* all corners of every host vertex agree with the first one
AllAgree(obj, textured) ==
    \A h \in 0..(Len(obj.vertices) - 1) :
        LET cs == CornersAt(obj, h)
        IN  \A i \in 2..Len(cs) : ~Conflicts(obj, cs[1], cs[i], textured)

\* C4: a group whose corners all agree, exported and read back with
\* read_group and get_verts/get_tris, has the same number N of vertices and
\* for every triangle the host's index triple in the host's order.
C4_TopologyRoundTrip ==
    pc = "imported" =>
        \A j \in 1..Len(host) :
            LET obj == ObjOf(groups[j])
            IN  AllAgree(obj, groups[j].has_uv) =>
                   /\ Len(host[j].verts) = Len(obj.vertices)
                   /\ Len(host[j].tris) = Len(obj.loop_triangles)
                   /\ \A k \in 1..Len(obj.loop_triangles) :
                         host[j].tris[k] = obj.loop_triangles[k].vertices

\* two agreeing triangles of different winding went out and came back
C4_Witness ==
    /\ pc = "imported"
    /\ Len(host) = 1
    /\ AllAgree(objs[1], groups[1].has_uv)
    /\ Len(host[1].tris) = 2
    /\ host[1].tris[1] # host[1].tris[2]
    /\ host[1].tris[2] = objs[1].loop_triangles[2].vertices

\* the three coordinates and the normal of a vertex as get_verts meets them
AsTokens(e) == <<e.x, e.y, e.z, e.nx, e.ny, e.nz>>

\* export rule then import rule, on a position, a normal and a uv, for one
\* non-panel swap setting
RuleRoundTrip(co, normal, uv, s) ==
    LET seed == from_BlenderVertex(co, s, FALSE)
        inplace == set_uv(set_normal(seed, normal, s).self, SomeUV(uv), FALSE).self
        copy == from_Vertex(seed, normal, SomeUV(uv), s, FALSE)
    IN  /\ VertOf(AsTokens(inplace), s) = co
        /\ NormalOf(AsTokens(inplace), s) = <<normal>>
        /\ NormalOf(AsTokens(copy), s) = <<normal>>
        /\ <<inplace.u, One - inplace.v>> = uv
        /\ <<copy.u, One - copy.v>> = uv

Within(a, b, d) == \A i \in 1..Len(a) : Abs(a[i] - b[i]) < d

\* a mesh that went through the file: what the importer hands to the host is
\* the host's own data up to the four decimals of the text
FileRoundTrip(obj, g, mesh) ==
    \A h \in 0..(Len(obj.vertices) - 1) :
        LET cs == CornersAt(obj, h)
        IN  /\ Within(mesh.verts[h + 1], obj.vertices[h + 1], Grid)
            /\ cs # <<>> =>
                  /\ Within(mesh.normals[h + 1], HostNormal(obj, cs[1]), Grid)
                  /\ g.has_uv => Within(mesh.uvs[h + 1], HostUv(obj, cs[1]), Grid)

\* C5: for both non-panel settings the export rule followed by the import rule
\* of get_verts with the same swap setting returns the original position or
\* normal, and the exported V (1 - v) is restored to v by the importer. The
\* rule is applied to every position, normal and uv of the scene (the scene
\* never changes, so once, before the export starts); a mesh that went
\* through the file comes back within the four decimals of the text.
C5_CoordinateRoundTrip ==
    /\ pc = "start" =>
          \A o \in Range(objs) : \A s \in BOOLEAN :
             \A i \in 1..Len(o.vertices) : \A k \in 1..Len(o.loop_triangles) : \A c \in 1..3 :
                RuleRoundTrip(o.vertices[i], o.loop_triangles[k].normals[c],
                              o.loop_triangles[k].uvs[c], s)
    /\ (pc = "imported" /\ ~scene.orbiter_is_2d_panel) =>
          \A j \in 1..Len(host) : FileRoundTrip(ObjOf(groups[j]), groups[j], host[j])

\* a textured mesh exported without axis swap and read back
C5_Witness ==
    /\ pc = "imported"
    /\ ~scene.orbiter_is_2d_panel
    /\ ~config.swap_yz
    /\ Len(host) = 1
    /\ host[1].has_uv
    /\ Len(host[1].tris) = 2
    /\ Within(host[1].verts[2], objs[1].vertices[2], Grid)
    /\ Within(host[1].uvs[1], UvA2, Grid)

\* whether a group names a material, a texture
HasMaterial(g) == g.has_mat /\ g.mat_name # <<>>
HasTexture(g) == g.uv_tex_name # <<>>

\* first-appearance numbering over the emitted groups: names[i] is the name of
\* group i and named[i] tells whether it has one
FirstAppearance(names, named, i) ==
    IF ~named[i] THEN 0
    ELSE LET first == CHOOSE j \in 1..i :
                         /\ named[j] /\ names[j] = names[i]
                         /\ \A l \in 1..(j - 1) : ~(named[l] /\ names[l] = names[i])
         IN  1 + Cardinality({names[l] : l \in {m \in 1..(first - 1) : named[m]}})

GroupMatNames == [i \in 1..Len(groups) |-> groups[i].mat_name]
GroupHasMat == [i \in 1..Len(groups) |-> HasMaterial(groups[i])]
GroupTexNames == [i \in 1..Len(groups) |-> groups[i].uv_tex_name]
GroupHasTex == [i \in 1..Len(groups) |-> HasTexture(groups[i])]

\* the name a name line carries: a material name as written (cut before the
\* first underscore in parse-material-name mode), a texture path without its
\* dynamic marker
WrittenMaterial(name) ==
    IF config.parse_material_name /\ "_" \in Range(name)
    THEN SubSeq(name, 1, IndexOf(name, "_")) ELSE name

WrittenTexture(text) ==
    IF text # <<>> /\ text[Len(text)] = DynSuffix THEN SubSeq(text, 1, Len(text) - 1)
    ELSE text

NameLines(kind) == SelectSeq(mesh_file, LAMBDA l : l.kind = kind)

Declared(kw) ==
    LET p == CHOOSE q \in 1..Len(mesh_file) :
                mesh_file[q].kind = "header" /\ mesh_file[q].kw = kw
    IN  mesh_file[p].nums[1]

\* C11: in an exported file every MATERIAL directive value is 0 or between 1
\* and the count on the MATERIALS line, and every TEXTURE directive value is 0
\* or between 1 and the count on the TEXTURES line.
C11_IndicesInRange ==
    pc = "exported" =>
        /\ \A i \in 1..Len(Directives("MATERIAL")) :
              Directives("MATERIAL")[i].nums[1] \in 0..Declared("MATERIALS")
        /\ \A i \in 1..Len(Directives("TEXTURE")) :
              Directives("TEXTURE")[i].nums[1] \in 0..Declared("TEXTURES")

\* a file whose last group holds the highest material and texture index declared
C11_Witness ==
    /\ pc = "exported"
    /\ Len(groups) = MaxGroups
    /\ Declared("MATERIALS") = 2
    /\ Declared("TEXTURES") = 2
    /\ Directives("MATERIAL")[Len(groups)].nums = <<2>>
    /\ Directives("TEXTURE")[Len(groups)].nums = <<2>>

\* the groups that reference texture path t
GroupsOfTexture(t) == {i \in 1..Len(groups) : HasTexture(groups[i]) /\ groups[i].uv_tex_name = t}

\* the lines of the TEXTURES block that name texture path t
LinesOfTexture(t) ==
    {k \in 1..Len(NameLines("texname")) : WrittenTexture(NameLines("texname")[k].text) = t}

EndsWithD(text) == text # <<>> /\ text[Len(text)] = DynSuffix

\* C12: each distinct texture path is on exactly one line of the TEXTURES
\* block, and that line ends with " D" if and only if at least one group that
\* references the texture is marked dynamic.
C12_DynamicOnce ==
    pc = "exported" =>
        \A g \in 1..Len(groups) :
            HasTexture(groups[g]) =>
               LET t == groups[g].uv_tex_name
               IN  /\ Cardinality(LinesOfTexture(t)) = 1
                   /\ \A k \in LinesOfTexture(t) :
                         EndsWithD(NameLines("texname")[k].text) <=>
                            \E i \in GroupsOfTexture(t) :
                               ObjOf(groups[i]).material_slots[1].orbiter_is_dynamic

\* one texture shared by a dynamic group and a group that is not dynamic,
\* beside a texture no group marks dynamic
C12_Witness ==
    /\ pc = "exported"
    /\ Len(groups) = 2
    /\ groups[1].uv_tex_name = groups[2].uv_tex_name
    /\ HasTexture(groups[1])
    /\ ~groups[1].is_dynamic_texture
    /\ groups[2].is_dynamic_texture
    /\ Len(NameLines("texname")) = 1
    /\ EndsWithD(NameLines("texname")[1].text)

\* the position in scene.objects of the mesh object of a group
ObjIndex(g) == CHOOSE i \in 1..Len(objs) : Replace(objs[i].name, " ", "_") = g.name

\* ascending sort_order, ties in the order of enumeration
AscendingStable(gs) ==
    \A a \in 1..Len(gs), b \in 1..Len(gs) :
        a < b =>
           \/ gs[a].sort_order < gs[b].sort_order
           \/ gs[a].sort_order = gs[b].sort_order /\ ObjIndex(gs[a]) < ObjIndex(gs[b])

\* the example of the specification: sort orders 50, 10, 50, 30
SortExample == [i \in 1..4 |-> [EmptyGroup EXCEPT !.name = <<"G", i>>,
                                  !.sort_order = <<50, 10, 50, 30>>[i]]]

\* C13: in SORTORDER mode, and under any sort_method other than GROUPNAMEASC
\* and GROUPNAMEDESC, groups are emitted in ascending sort_order and groups of
\* equal sort_order keep the order of enumeration; sort orders 50, 10, 50, 30
\* come out as the 2nd, 4th, 1st, 3rd object.
C13_SortStable ==
    /\ (config.sort_method \notin {"GROUPNAMEASC", "GROUPNAMEDESC"}
        /\ pc \in {"header", "write_group", "materials", "textures", "exported"}) =>
          /\ AscendingStable(groups)
          /\ Len(Directives("LABEL")) <= Len(groups)
          /\ \A i \in 1..Len(Directives("LABEL")) : Directives("LABEL")[i].text = groups[i].name
    /\ pc = "sort" =>
          \A m \in {"SORTORDER", "UNSORTED"} :
             [i \in 1..4 |-> SortedGroups(SortExample, m)[i].name[2]] = <<2, 4, 1, 3>>

\* two groups of equal sort_order written in the order of enumeration
C13_Witness ==
    /\ pc = "exported"
    /\ config.sort_method = "SORTORDER"
    /\ Len(groups) = 2
    /\ groups[1].sort_order = groups[2].sort_order
    /\ ObjIndex(groups[1]) = 1
    /\ Directives("LABEL")[1].text = groups[1].name

\* the written form the specification gives a host material name
SanitizedName(name, parse_name) ==
    Replace(IF parse_name /\ "_" \in Range(name)
            THEN SubSeq(name, 1, IndexOf(name, "_")) ELSE name,
            " ", "_")

\* C15: every material name written, on the name lines of the MATERIALS block
\* and on each "MATERIAL <name>" block header, has each space replaced by an
\* underscore and, in parse-material-name mode when the name holds an
\* underscore, is the substring before the first underscore; it never
\* contains a space.
C15_SanitizedNames ==
    \A kind \in {"matname", "mathead"} :
        \A k \in 1..Len(NameLines(kind)) :
            /\ NameLines(kind)[k].text = SanitizedName(mat_names[k], config.parse_material_name)
            /\ " " \notin Range(NameLines(kind)[k].text)

\* what holds of C15 in the code: the cut before the first underscore, and
\* the name as it is otherwise
C15_WrittenNames ==
    \A kind \in {"matname", "mathead"} :
        \A k \in 1..Len(NameLines(kind)) :
            NameLines(kind)[k].text = WrittenMaterial(mat_names[k])

\* the number of fields C14 gives the line of a vertex
FieldsOf(e) == 3 + (IF e.n_set THEN 3 ELSE 0) + (IF e.uv_set THEN 2 ELSE 0)

\* the vertex lines of the file, in file order
VertexLines == NameLines("vertex")

\* C14: a vertex line holds the three normal fields if and only if the vertex
\* has a normal set and the two UV fields if and only if it has a UV set,
\* whatever the values (a component equal to 0 included); the vertex lines of
\* a textured group whose vertices are all referenced have 8 fields.
C14_FieldsPresent ==
    (pc = "exported" /\ Len(groups) = 1) =>
        /\ \A i \in 1..Len(VertexLines) :
              Len(VertexLines[i].nums) = FieldsOf(groups[1].vertices_dict[i - 1])
        /\ (groups[1].has_uv /\ \A h \in 0..(Len(objs[1].vertices) - 1) :
                                   CornersAt(objs[1], h) # <<>>) =>
              \A i \in 1..Len(VertexLines) : Len(VertexLines[i].nums) = 8

\* what holds of C14 in the code: the fields are there when one of their
\* values is not 0
C14_FieldsWhenNotZero ==
    (pc = "exported" /\ Len(groups) = 1) =>
        \A i \in 1..Len(VertexLines) :
            LET e == groups[1].vertices_dict[i - 1]
            IN  Len(VertexLines[i].nums) =
                   3 + (IF e.n_set /\ Normal3(e) # <<0, 0, 0>> THEN 3 ELSE 0)
                     + (IF e.uv_set /\ Uv2(e) # <<0, 0>> THEN 2 ELSE 0)

\* a mesh object without a material: no slot, or an empty slot
Bare(obj) == obj.material_slots = <<>> \/ obj.material_slots[1].is_none

\* C16: exporting a mesh object with no material and no texture completes and
\* writes its group with MATERIAL 0 and TEXTURE 0; a quad of 4 positions whose
\* corners agree is written with GEOM 4 2 and two triangles over indices 0..3.
C16_BareObjectExports ==
    (Len(objs) = 1 /\ Bare(objs[1])) =>
        /\ pc \notin {"IndexError", "AttributeError"}
        /\ pc = "exported" =>
              /\ Directives("MATERIAL")[1].nums = <<0>>
              /\ Directives("TEXTURE")[1].nums = <<0>>
              /\ \E p \in LinesOfKind("geom") : mesh_file[p].nums = <<4, 2>>

\* what holds of C16 in the code: the quad with a material that has no image
C16_QuadWithMaterial ==
    (pc = "exported" /\ Len(objs) = 1 /\ Len(objs[1].vertices) = 4 /\ ~Bare(objs[1])) =>
        /\ Directives("TEXTURE")[1].nums = <<0>>
        /\ \E p \in LinesOfKind("geom") : mesh_file[p].nums = <<4, 2>>
        /\ \A i \in 1..Len(NameLines("triangle")) :
              Range(NameLines("triangle")[i].nums) \subseteq 0..3

\* the spellings of the header keyword that differ in letter case only
Mshx1Spellings == {"MSHX1", "mshx1", "Mshx1", "mSHx1"}

\* the reading has raised the header's MeshException: nothing was read
HeaderRefused == pc = "MeshException" /\ rd = NewReader

\* C17: reading a file whose first line does not hold MSHX1, letter case
\* ignored, fails with a MeshException before any group, material or texture
\* is read; a first line that holds it in any letter case is accepted.
C17_HeaderChecked ==
    pc # "exported" =>
        IF ReadLine(mesh_file, 0).kw \in Mshx1Spellings
        THEN ~HeaderRefused
        ELSE HeaderRefused

\* a file with a group record under the header MSHX is refused
C17_Witness ==
    /\ HeaderRefused
    /\ ReadLine(mesh_file, 0).kw = "MSHX"
    /\ Len(mesh_file) > 3

\* read_group is at work on a declared group: the header was accepted and
\* fewer groups than declared have been read
InReadGroup == rd.pos >= 2 /\ Len(rd.groups) < rd.n_groups

\* the lines read_group has ahead of it
Ahead == SubSeq(mesh_file, rd.pos + 1, Len(mesh_file))

\* lines of a group's directive section other than GEOM, and blank lines
DirectiveSection == Range(RecordHead(0)) \cup Range(RecordHead(1)) \cup {BlankLine}

\* C18: when a declared group has no GEOM line, the file ending or only blank
\* lines remaining inside its directive section, read_group raises the format
\* error and the read ends: it never keeps reading.
C18_MissingGeomRefused ==
    (InReadGroup /\ Range(Ahead) \subseteq DirectiveSection) =>
        pc \in {"read_group", "MeshException"}

\* what holds of C18 in the code: a GEOM line with fewer than two numbers
\* that follows the directives raises the format error
C18_ShortGeomRefused ==
    (InReadGroup /\ \E k \in 1..Len(Ahead) :
        /\ Upper(Ahead[k].kw) = "GEOM" /\ Len(Ahead[k].nums) < 2
        /\ Range(SubSeq(Ahead, 1, k - 1)) \subseteq DirectiveSection) =>
        pc \in {"read_group", "MeshException"}

\* a short GEOM line has been refused
C18_ShortGeomWitness ==
    /\ InReadGroup /\ pc = "MeshException"
    /\ \E k \in 1..Len(Ahead) : Upper(Ahead[k].kw) = "GEOM" /\ Len(Ahead[k].nums) < 2

\* C19: when a group's vertex lines are materialised, every line has 3, 5, 6
\* or 8 tokens, a line with another count having been rejected, and the
\* vertex, normal and UV lists have one entry per vertex line.
C19_TokenCountsChecked ==
    \A j \in 1..Len(host) :
        LET vs == get_verts(rd.groups[j], config.swap_yz)
        IN  /\ \A i \in 1..Len(rd.groups[j].verts) :
                  Len(rd.groups[j].verts[i]) \in {3, 5, 6, 8}
            /\ Len(vs.verts) = Len(rd.groups[j].verts)
            /\ Len(vs.normals) = Len(rd.groups[j].verts)
            /\ Len(vs.uvs) = Len(rd.groups[j].verts)

\* what holds of C19 in the code: lines of 3, 5, 6 or 8 tokens give one entry
\* in each list, the normal from tokens 4..6 and the UV from the last two
C19_HandledCounts ==
    \A j \in 1..Len(host) :
        LET lines == rd.groups[j].verts
            vs == get_verts(rd.groups[j], TRUE)
        IN  (\A i \in 1..Len(lines) : Len(lines[i]) \in {3, 5, 6, 8}) =>
               /\ Len(vs.verts) = Len(lines)
               /\ Len(vs.normals) = Len(lines)
               /\ Len(vs.uvs) = Len(lines)
               /\ \A i \in 1..Len(lines) :
                     /\ vs.verts[i] = <<lines[i][1], lines[i][3], lines[i][2]>>
                     /\ vs.normals[i] = IF Len(lines[i]) \in {6, 8}
                                        THEN <<lines[i][4], lines[i][6], lines[i][5]>>
                                        ELSE <<0, 0, 0>>
                     /\ vs.uvs[i] = IF Len(lines[i]) \in {5, 8}
                                    THEN <<lines[i][Len(lines[i]) - 1], lines[i][Len(lines[i])]>>
                                    ELSE <<0, 0>>

\* a group of 8-token lines has been materialised
C19_HandledWitness ==
    \E j \in 1..Len(host) :
        /\ rd.groups[j].verts # <<>>
        /\ \A i \in 1..Len(rd.groups[j].verts) : Len(rd.groups[j].verts[i]) = 8

\* C20: after read_materials succeeded on a block that declares n materials
\* the list has n + 1 entries, entry 0 is the material named "default", and
\* entry i holds the i-th declared name with the four data lines of the i-th
\* material body.
C20_MaterialsRead ==
    rd.materials # <<>> =>
        \E p \in 1..Len(mesh_file) :
            /\ mesh_file[p].kw = "MATERIALS"
            /\ LET n == mesh_file[p].nums[1]
               IN  /\ Len(rd.materials) = n + 1
                   /\ rd.materials[1].name = <<"d", "e", "f", "a", "u", "l", "t">>
                   /\ \A i \in 1..n :
                         /\ rd.materials[i + 1].name = <<MatHull, MatWing>>[i]
                         /\ rd.materials[i + 1].data =
                               [k \in 1..4 |-> MaterialBody(i)[k].nums]

\* a block of two materials has been read
C20_Witness ==
    /\ Len(rd.materials) = 3
    /\ rd.materials[3].name = MatWing
    /\ rd.groups # <<>>

\* C21: after read_textures succeeded on a block that declares n textures the
\* list has n + 1 entries, entry 0 is the empty texture that is not dynamic,
\* entry i is the i-th texture line without a trailing " D" and is dynamic
\* exactly when the line had it; read from the block the exporter wrote, the
\* entries are the exported paths and dynamic flags in the same order.
C21_TexturesRead ==
    rd.textures # <<>> =>
        \E p \in 1..Len(mesh_file) :
            /\ mesh_file[p].kw = "TEXTURES"
            /\ LET n == mesh_file[p].nums[1]
               IN  /\ Len(rd.textures) = n + 1
                   /\ rd.textures[1] = [name |-> <<>>, is_dynamic |-> FALSE]
                   /\ \A i \in 1..n :
                         LET t == mesh_file[p + i].text
                             d == t # <<>> /\ t[Len(t)] = " D"
                         IN  /\ rd.textures[i + 1].is_dynamic = d
                             /\ rd.textures[i + 1].name =
                                   IF d THEN SubSeq(t, 1, Len(t) - 1) ELSE t
                   /\ groups # <<>> =>
                         /\ n = Len(tex_names)
                         /\ \A i \in 1..n :
                               /\ rd.textures[i + 1].name = tex_names[i]
                               /\ rd.textures[i + 1].is_dynamic = In(tex_names[i], dyn_texs)

\* a dynamic and a plain texture have been exported and read back
C21_Witness ==
    /\ Len(rd.textures) = 3
    /\ Len(tex_names) = 2
    /\ rd.textures[2].is_dynamic /\ ~rd.textures[3].is_dynamic

\* build_mat_textures has been called and has returned or raised
MaterialsBuilt ==
    /\ rd.materials # <<>> /\ rd.textures # <<>>
    /\ pc \in {"build_mesh", "imported", "IndexError"}

\* build_mat_textures has raised: import_mesh ended before its new scene
BuildRaised == pc = "IndexError" /\ bpy_data.scenes = 0

\* the host material made for the pair of group g comes from the default
\* material and a warning was given
UsesDefault(g) ==
    LET mt == <<g.mat_index, g.tex_index>>
    IN  /\ mt \in DOMAIN rd.mat_dict
        /\ bpy_data.materials[rd.mat_dict[mt]].src_mat = DefaultMaterial
        /\ bpy_data.materials[rd.mat_dict[mt]].warned

\* C22: for every parsed group whose material index is greater than the
\* number n of declared materials, n + 1 included, build_mat_textures uses the
\* default material of position 0 with a warning and does not raise.
C22_OutOfRangeFallsBack ==
    MaterialsBuilt =>
        \A i \in 1..Len(rd.groups) :
            rd.groups[i].mat_index > Len(rd.materials) - 1 =>
                /\ ~BuildRaised
                /\ UsesDefault(rd.groups[i])

\* what holds of C22 in the code: the default material is used for an index
\* greater than n + 1, when no group has the index n + 1
C22_FallbackAboveLen ==
    (MaterialsBuilt /\ \A i \in 1..Len(rd.groups) :
                          rd.groups[i].mat_index # Len(rd.materials)) =>
        /\ ~BuildRaised
        /\ \A i \in 1..Len(rd.groups) :
              rd.groups[i].mat_index > Len(rd.materials) => UsesDefault(rd.groups[i])

\* a group with material index n + 2 has been given the default material
C22_FallbackWitness ==
    /\ MaterialsBuilt
    /\ \E i \in 1..Len(rd.groups) :
          /\ rd.groups[i].mat_index = Len(rd.materials) + 1
          /\ UsesDefault(rd.groups[i])

\* C23: build_mat_textures makes exactly one host material for each distinct
\* (material index, texture index) pair of the parsed groups, and the map it
\* returns has the pair of every group, leading to the material made for it.
C23_OneMaterialPerPair ==
    (pc \in {"build_mesh", "imported"} /\ bpy_data.scenes = 1) =>
        LET made == bpy_data.materials
            used == {<<rd.groups[i].mat_index, rd.groups[i].tex_index>> :
                       i \in 1..Len(rd.groups)}
        IN  /\ \A mt \in used :
                  Cardinality({k \in 1..Len(made) : made[k].pair = mt}) = 1
            /\ \A k \in 1..Len(made) : made[k].pair \in used
            /\ \A mt \in used :
                  /\ mt \in DOMAIN rd.mat_dict
                  /\ made[rd.mat_dict[mt]].pair = mt

\* two groups with different pairs: more host materials are made than the
\* file declares
C23_Witness ==
    /\ pc = "imported" /\ Len(rd.groups) = 2
    /\ rd.groups[1].tex_index # rd.groups[2].tex_index
    /\ Len(bpy_data.materials) = 2
    /\ Len(rd.materials) = 1

\* import_mesh has ended with an exception
ImportFailed == pc \in {"MeshException", "IndexError", "ValueError"}

\* C24: when import_mesh fails at any point, nothing of this import remains in
\* the host data: no scene, no object or mesh, no material.
C24_FailedImportLeavesNothing ==
    ImportFailed => bpy_data = NewBpyData /\ host = <<>>

\* what holds of C24 in the code: a failure while the file is read, before
\* build_mat_textures is called, leaves the host data as it was
C24_ReadFailureLeavesNothing ==
    (ImportFailed /\ (rd.materials = <<>> \/ rd.textures = <<>>)) =>
        bpy_data = NewBpyData /\ host = <<>>

\* reading has failed on a MATERIALS block that is not there
C24_ReadFailureWitness ==
    /\ pc = "MeshException" /\ rd.groups # <<>> /\ rd.materials = <<>>

\* a triple with its entries at positions 1 and 2 exchanged, and one with
\* its entries at positions 0 and 2 exchanged
SwapLastTwo(t) == <<t[1], t[3], t[2]>>

SwapEnds(t) == <<t[3], t[2], t[1]>>

\* C27 as amended: the reader turns a triangle line a b c into the host triple
\* a c b, exchanging the tokens at positions 1 and 2, and the writer applies
\* the same permutation to a host triple when it builds a Triangle.
C27_SwapLastTwo ==
    pc = "imported" =>
        \A j \in 1..Len(host) :
            /\ \A k \in 1..Len(host[j].tris) :
                  host[j].tris[k] = SwapLastTwo(rd.groups[j].tris[k])
            /\ AllAgree(ObjOf(groups[j]), groups[j].has_uv) =>
                  \A k \in 1..Len(groups[j].triangles_list) :
                      TriangleStr(groups[j].triangles_list[k]) =
                         SwapLastTwo(ObjOf(groups[j]).loop_triangles[k].vertices)

\* C27 as stated: the reader exchanges the tokens at positions 0 and 2, giving
\* c b a, and the writer applies the same permutation.
C27_SwapEnds ==
    pc = "imported" =>
        \A j \in 1..Len(host) :
            /\ \A k \in 1..Len(host[j].tris) :
                  host[j].tris[k] = SwapEnds(rd.groups[j].tris[k])
            /\ AllAgree(ObjOf(groups[j]), groups[j].has_uv) =>
                  \A k \in 1..Len(groups[j].triangles_list) :
                      TriangleStr(groups[j].triangles_list[k]) =
                         SwapEnds(ObjOf(groups[j]).loop_triangles[k].vertices)

\* a triangle written by the exporter has been read back into host order
C27_Witness ==
    /\ pc = "imported" /\ Len(host) = 1
    /\ AllAgree(objs[1], groups[1].has_uv)
    /\ Len(host[1].tris) = 2
    /\ rd.groups[1].tris[2] = SwapLastTwo(objs[1].loop_triangles[2].vertices)
    /\ host[1].tris[2] # rd.groups[1].tris[2]

\* the lines after the header that come before the first GROUPS line, and
\* whether there is such a line
BeforeGroups ==
    IF \E p \in 2..Len(mesh_file) : mesh_file[p].kw \in {"GROUPS", "groups"}
    THEN SubSeq(mesh_file, 2,
                (CHOOSE p \in 2..Len(mesh_file) :
                    /\ mesh_file[p].kw \in {"GROUPS", "groups"}
                    /\ \A q \in 2..(p - 1) : mesh_file[q].kw \notin {"GROUPS", "groups"}) - 1)
    ELSE SubSeq(mesh_file, 2, Len(mesh_file))

\* C28: after a valid header ensure_mesh passes every line that is not the
\* GROUPS line, blank and comment-only lines included, and returns the count
\* of the first line whose first token holds GROUP in any letter case; a file
\* without a GROUPS line ends in a format error and in no other failure.
C28_GroupsLineFound ==
    (pc # "exported" /\ ReadLine(mesh_file, 0).kw = "MSHX1") =>
        IF Len(BeforeGroups) + 1 < Len(mesh_file)
        THEN /\ rd.pos >= Len(BeforeGroups) + 2
             /\ rd.n_groups = mesh_file[Len(BeforeGroups) + 2].nums[1]
        ELSE pc = "MeshException"

\* what holds of C28 in the code: lines with a token, comment lines included,
\* are passed, and the count of the first GROUPS line is returned
C28_WordLinesPassed ==
    (pc # "exported" /\ ReadLine(mesh_file, 0).kw = "MSHX1"
       /\ Len(BeforeGroups) + 1 < Len(mesh_file)
       /\ BlankLine \notin Range(BeforeGroups)) =>
        /\ rd.pos >= Len(BeforeGroups) + 2
        /\ rd.n_groups = mesh_file[Len(BeforeGroups) + 2].nums[1]

\* two comment lines have been passed before a lower-case GROUPS line
C28_WordLinesWitness ==
    /\ pc = "imported"
    /\ BeforeGroups = <<CommentLine, CommentLine>>
    /\ mesh_file[4].kw = "groups" /\ rd.n_groups = 1

\* the index given to the corner that a step of the triangle loop handles
IndexGiven ==
    IF ci < 2 THEN export_tri_face'[ci]
    ELSE CornerIndex(export_faces'[Len(export_faces')], 2)

\* C29: the corners are handled in triangle order and then in corner order
\* 0, 1, 2; the first corner that refers to a host vertex keeps the vertex's
\* index; a corner that gets another index gets the size of the table at that
\* moment, which is at least the number of host vertices; and an entry whose
\* normal or UV is set is not changed, removed or moved by any later step.
C29_DedupOrder ==
    [][pc = "corners" =>
         LET table == cur.vertices_dict
             h == objs[gi].loop_triangles[ti].vertices[ci + 1]
         IN  /\ IF ci < 2 THEN ti' = ti /\ ci' = ci + 1
                           ELSE ti' = ti + 1 /\ ci' = 0
             /\ ~table[h].n_set => IndexGiven = h
             /\ IndexGiven # h =>
                   /\ IndexGiven = Cardinality(DOMAIN table)
                   /\ IndexGiven >= Len(objs[gi].vertices)
                   /\ IndexGiven \in DOMAIN cur'.vertices_dict
                   /\ IndexGiven \notin DOMAIN table
             /\ \A k \in DOMAIN table :
                   /\ k \in DOMAIN cur'.vertices_dict
                   /\ (table[k].n_set \/ table[k].uv_set) =>
                         cur'.vertices_dict[k] = table[k]]_vars

\* two corners in conflict at a host vertex have been handled: the table has
\* an entry past the host vertices and the second triangle points at it
C29_Witness ==
    /\ pc = "mesh_finish"
    /\ Len(export_faces) = 2
    /\ Cardinality(DOMAIN cur.vertices_dict) > Len(objs[gi].vertices)
    /\ \E c \in 0..2 : CornerIndex(export_faces[2], c) >= Len(objs[gi].vertices)

\* the lines of the include file that declare a constant of one kind
IncLines(kind) == SelectSeq(include_file, LAMBDA l : l.kind = kind)

\* C30: with include generation on, the id constant written for a group is
\* the zero-based position of the group's record in the mesh file, under every
\* sort mode, and each TXIDX constant is the 1-based TEXTURE index the mesh
\* file uses for that texture.
C30_IncludeIndices ==
    (pc = "exported" /\ config.build_include_file) =>
        /\ Len(IncLines("ID")) = Len(Directives("LABEL"))
        /\ \A k \in 1..Len(IncLines("ID")) :
              /\ IncLines("ID")[k].name = clean_name(Directives("LABEL")[k].text)
              /\ IncLines("ID")[k].value = k - 1
        /\ Len(IncLines("TXIDX")) = Len(NameLines("texname"))
        /\ \A k \in 1..Len(IncLines("TXIDX")) :
              IncLines("TXIDX")[k].name =
                 clean_name(WrittenTexture(NameLines("texname")[k].text))
        /\ \A j \in 1..Len(groups) :
              LET t == Directives("TEXTURE")[j].nums[1]
              IN  t # 0 =>
                    \E k \in 1..Len(IncLines("TXIDX")) :
                        /\ IncLines("TXIDX")[k].name = clean_name(groups[j].uv_tex_name)
                        /\ IncLines("TXIDX")[k].value = t

\* two groups written in ascending name order, against the order of the
\* scene, the second with a texture
C30_Witness ==
    /\ pc = "exported" /\ config.build_include_file
    /\ config.sort_method = "GROUPNAMEASC"
    /\ Len(groups) = 2 /\ ObjIndex(groups[1]) = 2
    /\ Len(IncLines("ID")) = 2
    /\ \E j \in 1..2 : Directives("TEXTURE")[j].nums[1] = 1

\* C25: when the include file cannot be opened as the settings are created,
\* include generation is off and a warning is logged, no later
\* write_to_include or build_include call writes or raises, the mesh file of
\* every scene is still written, and leaving the settings closes no include
\* file.
C25_IncludeDegrades ==
    build.include_failed =>
        /\ ~build.build_include_file
        /\ build.verbose => "include_error" \in Range(build.log)
        /\ include_file = <<>>
        /\ build.include = "none"
        /\ pc = "raised" => build.scenes[build.si].fault # "none"
        /\ (\A i \in 1..Len(build.scenes) : build.scenes[i].fault = "none") =>
              /\ pc # "raised"
              /\ pc = "finished" =>
                    /\ Len(build.mesh_files) = Len(build.scenes)
                    /\ \A i \in 1..Len(build.mesh_files) : build.mesh_files[i].complete

\* a build of two scenes has finished without its include file
C25_Witness ==
    /\ build.include_failed /\ pc = "finished"
    /\ build.verbose
    /\ Len(build.mesh_files) = 2

\* C26: when a build ends, by completion or by an exception raised while a
\* scene is exported, the mesh file of the scene being written, the include
\* file and the log file are closed: no file of the export stays open.
C26_FilesClosed ==
    /\ pc \in {"finished", "raised"} =>
          /\ build.include # "open"
          /\ build.log_file # "open"
          /\ \A i \in 1..Len(build.mesh_files) : build.mesh_files[i].state = "closed"
    /\ pc \in {"scene_groups", "scene_open"} =>
          \A i \in 1..Len(build.mesh_files) : build.mesh_files[i].state = "closed"

\* the write of the second scene failed with the include and log files open
C26_Witness ==
    /\ pc = "raised"
    /\ build.si = 2 /\ build.scenes[2].fault = "write"
    /\ build.include = "closed" /\ build.log_file = "closed"
    /\ Len(build.mesh_files) = 2

====
